---------------------------- MODULE Spec2Model ----------------------------
(***************************************************************************)
(* A model of curious.js: the object materializer (_parseObjects), the     *)
(* result graph builder (CuriousObjects.parse) and the query client        *)
(* (_convertResultsToOutput, _getArgs, performQuery).                      *)
(*                                                                         *)
(* JavaScript values are modelled as follows.                              *)
(*   - a primitive is a string: "0", "1" are the numbers 0 and 1 (which    *)
(*     is also how they key an object), "null" and "undefined" are the     *)
(*     two empty values;                                                   *)
(*   - a property name is a sequence of one-character strings, so that     *)
(*     makeCamelCase can look at its characters;                           *)
(*   - an object is a reference (a position in heap); heap[r] is the       *)
(*     function from the object's own property names to their values;      *)
(*   - a property value is Prim(p) or Arr(a), a an array of references.    *)
(***************************************************************************)
EXTENDS Integers, Sequences, FiniteSets, TLC

VARIABLES
    \* CuriousObjects.parse: arguments, the response read so far, locals
    relationships, customConstructors, existingObjects, camelCase,
    data, results, heap, combinedObjects, trees, pc, queryIndex,
    \* the number of join ID pairs read so far
    pairsRead,
    \* the join ID pairs read so far whose two identifiers are keys of the two
    \* stage maps, as <<stage, id, srcID>>
    joined,
    \* _parseObjects: its arguments, the objects pushed so far, its position
    parseObjectsArgs, objects, objectsPc,
    \* _convertResultsToOutput: its arguments, output, and the key each
    \* object was put under, in the order of the objects
    convertArgs, output, outputKeys,
    \* _getArgs and the q of performQuery: the arguments of the call, args,
    \* the position in the call
    callArgs, args, argsPc,
    \* performQuery and the promises: for each call the promise of the
    \* transport, the promise performQuery returned, the number of times
    \* the transport was invoked and the response was parsed
    transportPromise, returnedPromise, invoked, parsed,
    \* whether a client takes calls
    clientPc,
    \* CuriousQuery.perform: the thens of the query, the promises of the chain
    \* (the promise of performQuery first, the returned promise last, then
    \* the promise of the caller's own callback), the callbacks run so far
    performThens, promises, ran, performPc,
    \* CuriousQuery: a query object, the query object given to extend, the
    \* query object clone returned, the last call made and how it ended
    chain, extension, cloned, lastCall, queryPc,
    \* two performQuery calls in flight on one client: their arguments, the
    \* objects they share, what each resolved to
    overlapArgs, overlapHeap, overlapResolved, overlapPc,
    \* CuriousQuery objects held by reference: the arrays and objects of the
    \* program, the query objects (the clone after the one cloned), the last
    \* call made and how it ended, the number of calls made
    store, queries, sharedCall, sharedCalls, sharedPc,
    \* a call of makeCamelCase: its argument, what it returned, its position
    camelInput, camelOutput, camelPc,
    \* a call of CuriousObjects.parse on a whole response: the response, the
    \* existing objects, the objects of the program, what parse returned
    graphResponse, graphExisting, graphHeap, graphParsed, graphPc,
    \* a custom constructor from the query chain to _parseObjects: the query
    \* object, the stage data of the response, the calls of functions made,
    \* the rows made into objects so far
    wrapQuery, wrapData, wrapCalls, wrapRows, wrapPc

parseVars == <<relationships, customConstructors, existingObjects, camelCase,
               data, results, heap, combinedObjects, trees, pc, queryIndex,
               pairsRead, joined>>

objectsVars == <<parseObjectsArgs, objects, objectsPc>>

convertVars == <<convertArgs, output, outputKeys>>

argsVars == <<callArgs, args, argsPc>>

clientVars == <<transportPromise, returnedPromise, invoked, parsed, clientPc>>

performVars == <<performThens, promises, ran, performPc>>

queryVars == <<chain, extension, cloned, lastCall, queryPc>>

overlapVars == <<overlapArgs, overlapHeap, overlapResolved, overlapPc>>

sharedVars == <<store, queries, sharedCall, sharedCalls, sharedPc>>

camelVars == <<camelInput, camelOutput, camelPc>>

graphVars == <<graphResponse, graphExisting, graphHeap, graphParsed, graphPc>>

wrapVars == <<wrapQuery, wrapData, wrapCalls, wrapRows, wrapPc>>

vars == <<parseVars, objectsVars, convertVars, argsVars, clientVars,
          performVars, queryVars, overlapVars,
          sharedVars,
          camelVars,
          graphVars,
          wrapVars>>

\* The variables of every part but one
notParse == <<objectsVars, convertVars, argsVars, clientVars,
    performVars, queryVars, overlapVars,
    sharedVars,
    camelVars,
    graphVars,
    wrapVars>>
notObjects == <<parseVars, convertVars, argsVars, clientVars,
    performVars, queryVars, overlapVars,
    sharedVars,
    camelVars,
    graphVars,
    wrapVars>>
notConvert == <<parseVars, objectsVars, argsVars, clientVars,
    performVars, queryVars, overlapVars,
    sharedVars,
    camelVars,
    graphVars,
    wrapVars>>
notArgs == <<parseVars, objectsVars, convertVars, clientVars,
    performVars, queryVars, overlapVars,
    sharedVars,
    camelVars,
    graphVars,
    wrapVars>>
notClient == <<parseVars, objectsVars, convertVars, argsVars,
    performVars, queryVars, overlapVars,
    sharedVars,
    camelVars,
    graphVars,
    wrapVars>>
notPerform == <<parseVars, objectsVars, convertVars, argsVars,
    clientVars, queryVars, overlapVars,
    sharedVars,
    camelVars,
    graphVars,
    wrapVars>>
notQuery == <<parseVars, objectsVars, convertVars, argsVars,
    clientVars, performVars, overlapVars,
    sharedVars,
    camelVars,
    graphVars,
    wrapVars>>
notOverlap == <<parseVars, objectsVars, convertVars, argsVars,
    clientVars, performVars, queryVars,
    sharedVars,
    camelVars,
    graphVars,
    wrapVars>>

notShared == <<parseVars, objectsVars, convertVars, argsVars, clientVars, performVars, queryVars, overlapVars,
    camelVars,
    graphVars,
    wrapVars>>

notCamel == <<parseVars, objectsVars, convertVars, argsVars, clientVars, performVars, queryVars, overlapVars, sharedVars,
    graphVars,
    wrapVars>>

notGraph == <<parseVars, objectsVars, convertVars, argsVars, clientVars, performVars, queryVars, overlapVars, sharedVars, camelVars,
    wrapVars>>

notWrap == <<parseVars, objectsVars, convertVars, argsVars, clientVars, performVars, queryVars, overlapVars, sharedVars, camelVars, graphVars>>

\* The parts of the program a specification leaves out stay as they are here
ParseIdle ==
    /\ relationships = <<>> /\ customConstructors = <<>> /\ existingObjects = <<>>
    /\ camelCase = FALSE /\ data = <<>> /\ results = <<>> /\ heap = <<>>
    /\ combinedObjects = <<>> /\ trees = <<>> /\ pc = "idle" /\ queryIndex = 0
    /\ pairsRead = 0 /\ joined = {}

ObjectsIdle == parseObjectsArgs = <<>> /\ objects = <<>> /\ objectsPc = "idle"

ConvertIdle == convertArgs = <<>> /\ output = <<>> /\ outputKeys = <<>>

ArgsIdle == callArgs = <<>> /\ args = <<>> /\ argsPc = "idle"

ClientIdle ==
    /\ transportPromise = <<>> /\ returnedPromise = <<>> /\ invoked = <<>> /\ parsed = <<>>
    /\ clientPc = "idle"

PerformIdle == performThens = <<>> /\ promises = <<>> /\ ran = <<>> /\ performPc = "idle"

QueryIdle ==
    /\ chain = <<>> /\ extension = <<>> /\ cloned = <<>> /\ lastCall = <<>>
    /\ queryPc = "idle"

OverlapIdle ==
    /\ overlapArgs = <<>> /\ overlapHeap = <<>> /\ overlapResolved = <<>>
    /\ overlapPc = "idle"

SharedIdle ==
    /\ store = <<>> /\ queries = <<>> /\ sharedCall = <<>> /\ sharedCalls = 0
    /\ sharedPc = "idle"

CamelIdle ==
    /\ camelInput = <<>> /\ camelOutput = <<>> /\ camelPc = "idle"

GraphIdle ==
    /\ graphResponse = <<>> /\ graphExisting = <<>> /\ graphHeap = <<>>
    /\ graphParsed = <<>> /\ graphPc = "idle"

WrapIdle ==
    /\ wrapQuery = <<>> /\ wrapData = <<>> /\ wrapCalls = <<>> /\ wrapRows = 0
    /\ wrapPc = "idle"

----------------------------------------------------------------------------
(* Bounds of the model *)

\* rows of all stages of one response, together
MaxObjects == 3
\* rows of the stage data given to _parseObjects
MaxRows == 2
\* fields of the stage data given to _parseObjects
MaxFields == 2
\* relationship names given to _convertResultsToOutput
MaxNames == 3
\* characters of the query string given to performQuery
MaxQuery == 2
\* calls of performQuery
MaxCalls == 3
\* join ID pairs of all stages of one response, together
MaxPairs == 2
\* stages of one response
MaxStages == 2

----------------------------------------------------------------------------
(* Values *)

Null == "null"
Undefined == "undefined"

Prim(p) == [k |-> "p", p |-> p, a |-> <<>>]
Arr(a) == [k |-> "a", p |-> "", a |-> a]

\* ToBoolean of a primitive: 0, "", null and undefined are falsy
Truthy(p) == p \notin {"0", "", Null, Undefined}

\* obj[name] = val
SetProp(obj, name, val) ==
    [n \in DOMAIN obj \cup {name} |-> IF n = name THEN val ELSE obj[n]]

\* obj[name], undefined when obj has no such property
GetProp(obj, name) == IF name \in DOMAIN obj THEN obj[name] ELSE Prim(Undefined)

EmptyObject == [n \in {} |-> Prim(Undefined)]

\* array[index], undefined past the end
At(array, index) == IF index \in 1..Len(array) THEN array[index] ELSE Undefined

N_id == <<"i", "d">>
N_url == <<"_", "_", "u", "r", "l">>
N_model == <<"_", "_", "m", "o", "d", "e", "l">>

----------------------------------------------------------------------------
(* makeCamelCase *)

IsSeparator(c) == c \in {"_", "-"}

LowerCaseLetters ==
    <<"a", "b", "c", "d", "e", "f", "g", "h", "i", "j", "k", "l", "m",
      "n", "o", "p", "q", "r", "s", "t", "u", "v", "w", "x", "y", "z">>

UpperCaseLetters ==
    <<"A", "B", "C", "D", "E", "F", "G", "H", "I", "J", "K", "L", "M",
      "N", "O", "P", "Q", "R", "S", "T", "U", "V", "W", "X", "Y", "Z">>

LetterIndex(letters, c) == CHOOSE i \in 1..Len(letters) : letters[i] = c

ToLowerCase(c) ==
    IF \E i \in 1..Len(UpperCaseLetters) : UpperCaseLetters[i] = c
    THEN LowerCaseLetters[LetterIndex(UpperCaseLetters, c)] ELSE c

ToUpperCase(c) ==
    IF \E i \in 1..Len(LowerCaseLetters) : LowerCaseLetters[i] = c
    THEN UpperCaseLetters[LetterIndex(LowerCaseLetters, c)] ELSE c

\* the text matched by /^[-_]+/ : the length of the leading run of separators
RECURSIVE LeadingLength(_)
LeadingLength(input) ==
    IF input # <<>> /\ IsSeparator(Head(input))
    THEN 1 + LeadingLength(Tail(input)) ELSE 0

\* the text matched by /[-_]+$/ : the length of the trailing run of separators
RECURSIVE TrailingLength(_)
TrailingLength(input) ==
    IF input # <<>> /\ IsSeparator(input[Len(input)])
    THEN 1 + TrailingLength(SubSeq(input, 1, Len(input) - 1)) ELSE 0

\* body.split(/[_-]/), current being the component read so far
RECURSIVE Split(_, _)
Split(body, current) ==
    IF body = <<>> THEN <<current>>
    ELSE IF IsSeparator(Head(body))
         THEN <<current>> \o Split(Tail(body), <<>>)
         ELSE Split(Tail(body), Append(current, Head(body)))

\* CaseComponent that keeps the case of the letters it does not capitalize
CaseComponentKeepingCase(component, ix) ==
    IF ix > 1 /\ component # <<>>
    THEN <<ToUpperCase(component[1])>> \o Tail(component)
    ELSE component

CaseComponent(component, ix) ==
    LET lowered == [i \in 1..Len(component) |-> ToLowerCase(component[i])]
    IN  IF ix > 1 /\ lowered # <<>>
        THEN <<ToUpperCase(lowered[1])>> \o Tail(lowered)
        ELSE lowered

RECURSIVE Join(_)
Join(components) ==
    IF components = <<>> THEN <<>> ELSE Head(components) \o Join(Tail(components))

makeCamelCase(input) ==
    IF input = <<>> THEN input
    ELSE LET leading == LeadingLength(input)
             trailing == TrailingLength(input)
         IN  IF leading = Len(input) THEN input
             ELSE LET components ==
                          Split(SubSeq(input, leading + 1, Len(input) - trailing), <<>>)
                      casedComponents ==
                          IF Len(components) > 1
                          THEN [ix \in 1..Len(components) |->
                                    CaseComponent(components[ix], ix)]
                          ELSE components
                  IN  SubSeq(input, 1, leading)
                      \o Join(casedComponents)
                      \o SubSeq(input, Len(input) - trailing + 1, Len(input))

----------------------------------------------------------------------------
(* _parseObjects *)

\* new CustomConstructorClass(objectData), for the constructors of the model:
\*   "Empty"  function () {}, as in the tests: sets nothing;
\*   "Copy"   copies the properties of objectData;
\*   "Preset" sets a value of its own ("ctor") under every key of objectData,
\*            under its camel-cased form and under __url and __model.
Construct(customConstructor, objectData) ==
    CASE customConstructor = "Copy" -> objectData
      [] customConstructor = "Preset" ->
            [n \in DOMAIN objectData
                   \cup {makeCamelCase(f) : f \in DOMAIN objectData}
                   \cup {N_url, N_model} |-> Prim("ctor")]
      [] OTHER -> EmptyObject

\* CombineFields reading each value one column too far
RECURSIVE CombineFieldsNextColumn(_, _, _, _)
CombineFieldsNextColumn(objectData, fields, objectDataArray, fieldIndex) ==
    IF fieldIndex > Len(fields) THEN objectData
    ELSE CombineFieldsNextColumn(
             SetProp(objectData, fields[fieldIndex],
                     Prim(At(objectDataArray, fieldIndex + 1))),
             fields, objectDataArray, fieldIndex + 1)

\* queryData.fields.forEach(... objectData[fieldName] = objectDataArray[fieldIndex])
RECURSIVE CombineFields(_, _, _, _)
CombineFields(objectData, fields, objectDataArray, fieldIndex) ==
    IF fieldIndex > Len(fields) THEN objectData
    ELSE CombineFields(
             SetProp(objectData, fields[fieldIndex],
                     Prim(At(objectDataArray, fieldIndex))),
             fields, objectDataArray, fieldIndex + 1)

\* AssignFields that leaves alone the properties obj already has
RECURSIVE AssignFieldsMissing(_, _, _, _, _)
AssignFieldsMissing(obj, objectData, fields, camelCase_, fieldIndex) ==
    IF fieldIndex > Len(fields) THEN obj
    ELSE LET fieldName == fields[fieldIndex]
             newFieldName == IF camelCase_ THEN makeCamelCase(fieldName) ELSE fieldName
         IN  AssignFieldsMissing(
                 IF newFieldName \in DOMAIN obj THEN obj
                 ELSE SetProp(obj, newFieldName, objectData[fieldName]),
                 objectData, fields, camelCase_, fieldIndex + 1)

\* queryData.fields.forEach(... obj[newFieldName] = objectData[fieldName])
RECURSIVE AssignFields(_, _, _, _, _)
AssignFields(obj, objectData, fields, camelCase_, fieldIndex) ==
    IF fieldIndex > Len(fields) THEN obj
    ELSE LET fieldName == fields[fieldIndex]
             newFieldName == IF camelCase_ THEN makeCamelCase(fieldName) ELSE fieldName
         IN  AssignFields(SetProp(obj, newFieldName, objectData[fieldName]),
                          objectData, fields, camelCase_, fieldIndex + 1)

\* Object.keys(objectData): each field name once, in the order in which
\* fields first names it (no field name of the model is an integer)
RECURSIVE Keys(_, _)
Keys(fields, seen) ==
    IF fields = <<>> THEN <<>>
    ELSE IF Head(fields) \in seen THEN Keys(Tail(fields), seen)
         ELSE <<Head(fields)>> \o Keys(Tail(fields), seen \cup {Head(fields)})

\* new CuriousObject(objectData, camelCase)
CuriousObject(objectData, fields, camelCase_) ==
    AssignFields(SetProp(SetProp(EmptyObject, N_url, Prim(Null)), N_model, Prim(Null)),
                 objectData, Keys(fields, {}), camelCase_, 1)

\* One row of queryData.objects made into an object
ParseObject(queryData, model, customConstructor, camelCase_, objectIndex) ==
    LET url == At(queryData.urls, objectIndex)
        objectData == CombineFields(EmptyObject, queryData.fields,
                                    queryData.objects.rows[objectIndex], 1)
        obj == IF customConstructor # Null
               THEN AssignFields(Construct(customConstructor, objectData),
                                 objectData, queryData.fields, camelCase_, 1)
               ELSE CuriousObject(objectData, queryData.fields, camelCase_)
    IN  SetProp(SetProp(obj, N_url, Prim(url)), N_model, Prim(model))

\* _parseObjects: queryData.objects is [isArray, rows]
parseObjects(queryData, model, customConstructor, camelCase_) ==
    IF queryData.objects.isArray
    THEN [objectIndex \in 1..Len(queryData.objects.rows) |->
              ParseObject(queryData, model, customConstructor, camelCase_, objectIndex)]
    ELSE <<>>

\* The stage data of the model: Len(fields) columns and n rows, the cell of
\* row k and column j holding the value "kj", and the urls "url1".."urln"
StageData(fields, n, isArray) ==
    [fields |-> fields,
     objects |-> [isArray |-> isArray,
                  rows |-> [k \in 1..n |->
                               [j \in 1..Len(fields) |-> ToString(k) \o ToString(j)]]],
     urls |-> [k \in 1..n |-> "url" \o ToString(k)]]

\* The field names of the model: two that makeCamelCase leaves alone, one it
\* changes, the one it changes that one into, and a name _parseObjects sets
FieldNames == {N_id, <<"f", "_", "x">>, <<"f", "X">>, N_url}

\* The constructors of the model; null is the default path
Constructors == {Null, "Empty", "Copy", "Preset"}

FieldLists(n) == UNION {[1..m -> FieldNames] : m \in 0..n}

ObjectsInit ==
    /\ ParseIdle /\ ConvertIdle /\ ArgsIdle /\ ClientIdle
    /\ PerformIdle /\ QueryIdle /\ OverlapIdle /\ SharedIdle /\ CamelIdle /\ GraphIdle /\ WrapIdle
    /\ \E fields \in FieldLists(MaxFields), n \in 0..MaxRows, isArray \in BOOLEAN :
         \E customConstructor \in Constructors, camelCase_ \in BOOLEAN :
             parseObjectsArgs = [queryData |-> StageData(fields, n, isArray),
                                 model |-> "Model",
                                 customConstructor |-> customConstructor,
                                 camelCase |-> camelCase_]
    /\ objects = <<>>
    /\ objectsPc = "start"

\* if (queryData.objects instanceof Array)
ObjectsStart ==
    /\ objectsPc = "start"
    /\ objectsPc' = IF parseObjectsArgs.queryData.objects.isArray THEN "forEach" ELSE "return"
    /\ UNCHANGED <<notObjects, parseObjectsArgs, objects>>

\* One turn of queryData.objects.forEach, objects.push(obj) at its end
ObjectsRow ==
    /\ objectsPc = "forEach"
    /\ Len(objects) < Len(parseObjectsArgs.queryData.objects.rows)
    /\ objects' = Append(objects,
                         ParseObject(parseObjectsArgs.queryData, parseObjectsArgs.model,
                                     parseObjectsArgs.customConstructor,
                                     parseObjectsArgs.camelCase, Len(objects) + 1))
    /\ UNCHANGED <<notObjects, parseObjectsArgs, objectsPc>>

\* The end of queryData.objects.forEach
ObjectsEnd ==
    /\ objectsPc = "forEach"
    /\ Len(objects) = Len(parseObjectsArgs.queryData.objects.rows)
    /\ objectsPc' = "return"
    /\ UNCHANGED <<notObjects, parseObjectsArgs, objects>>

ObjectsNext == ObjectsStart \/ ObjectsRow \/ ObjectsEnd

SpecObjects == ObjectsInit /\ [][ObjectsNext]_vars

----------------------------------------------------------------------------
(* CuriousObjects.parse *)

\* Identifiers of the responses of the model; 0 is an identifier like any other
IDs == {"0", "1"}

\* Relationship names of the model
RelNames == {<<"a", "_", "b">>, <<"c">>}

\* The fields of every stage of the model: id and one more
N_field == <<"f", "_", "x">>
Fields == <<N_id, N_field>>

ModelName(stage) == "Model" \o ToString(stage)

\* The stage data whose rows carry the identifiers ids, in this order: row k
\* holds <<ids[k], "row k">> and has the url "url k"
QueryData(ids) ==
    [fields |-> Fields,
     objects |-> [isArray |-> TRUE,
                  rows |-> [k \in 1..Len(ids) |-> <<ids[k], "row" \o ToString(k)>>]],
     urls |-> [k \in 1..Len(ids) |-> "url" \o ToString(k)]]

\* The relationship name under which the caller's entity has an array from
\* an earlier query
N_earlier == <<"c">>

\* A caller's entity from an earlier query, placed at ref: its fields, and
\* the relationship array the earlier query gave it, which holds the entity
ExistingEntityAt(ref, id) ==
    SetProp(SetProp(SetProp(SetProp(SetProp(EmptyObject,
        N_id, Prim(id)), N_field, Prim("old")), N_url, Prim("oldurl")),
        N_model, Prim("OldModel")), N_earlier, Arr(<<ref>>))

\* The caller's entity of parse, the first object of the heap
ExistingEntity(id) == ExistingEntityAt(1, id)

\* All of a sequence but its last element
Front(sequence) == SubSeq(sequence, 1, Len(sequence) - 1)

EmptyMap == [key \in {} |-> 0]
Range(f) == {f[x] : x \in DOMAIN f}

\* array[index] for a zero-based index
Nth(array, index) == array[index + 1]

\* existingObjects[queryIndex] when existingObjects is an array and the entry
\* is an object; no entry otherwise
ExistingAt(existing, index) ==
    IF existing.isArray /\ index + 1 \in 1..Len(existing.items)
       /\ existing.items[index + 1].present
    THEN existing.items[index + 1].map
    ELSE EmptyMap

\* (customConstructors instanceof Array) ? customConstructors[queryIndex] : null
ConstructorAt(constructors, index) ==
    IF constructors.isArray /\ index + 1 \in 1..Len(constructors.items)
    THEN constructors.items[index + 1]
    ELSE Null

\* KeptObject with the existing objects never looked at
KeptObjectFresh(existing, id, object) == object

\* The object kept for a row's id: the existing one when
\* existingObjects[queryIndex].hasOwnProperty(id), the row's own otherwise
KeptObject(existing, id, object) ==
    IF id \in DOMAIN existing THEN existing[id] ELSE object

\* AssignByID that keeps the object an id already has
AssignByIDFirst(objectsByID, id, object) ==
    [key \in DOMAIN objectsByID \cup {id} |->
        IF key \in DOMAIN objectsByID THEN objectsByID[key] ELSE object]

\* objectsByID[id] = object
AssignByID(objectsByID, id, object) ==
    [key \in DOMAIN objectsByID \cup {id} |->
        IF key = id THEN object ELSE objectsByID[key]]

\* queryObjects.forEach(...): the objects are at firstRef, firstRef + 1, ...
RECURSIVE GroupQueryObjects(_, _, _, _, _)
GroupQueryObjects(objectsByID, queryObjects, firstRef, existing, k) ==
    IF k > Len(queryObjects) THEN objectsByID
    ELSE LET id == GetProp(queryObjects[k], N_id).p
         IN  GroupQueryObjects(
                 AssignByID(objectsByID, id, KeptObject(existing, id, firstRef + k - 1)),
                 queryObjects, firstRef, existing, k + 1)

\* InitializeArrays on every object there is, those of joinObjects or not
InitializeArraysAll(h, joinObjects, relationshipName) ==
    [r \in 1..Len(h) |-> SetProp(h[r], relationshipName, Arr(<<>>))]

\* InitializeArrays with null in the place of the empty array
InitializeArraysNull(h, joinObjects, relationshipName) ==
    [r \in 1..Len(h) |->
        IF r \in Range(joinObjects)
        THEN SetProp(h[r], relationshipName, Prim(Null))
        ELSE h[r]]

\* joinObjects[id][relationshipName] = [] for every id of joinObjects
InitializeArrays(h, joinObjects, relationshipName) ==
    [r \in 1..Len(h) |->
        IF r \in Range(joinObjects)
        THEN SetProp(h[r], relationshipName, Arr(<<>>))
        ELSE h[r]]

\* array.unshift(obj) in the place of array.push(obj)
PushFirst(h, ref, name, obj) ==
    [h EXCEPT ![ref] = SetProp(h[ref], name, Arr(<<obj>> \o h[ref][name].a))]

\* array.push of a copy of obj, a new object, in the place of obj
PushCopy(h, ref, name, obj) ==
    [Append(h, h[obj]) EXCEPT
        ![ref] = SetProp(h[ref], name, Arr(Append(h[ref][name].a, Len(h) + 1)))]

\* array.push(obj) on the array property name of the object at ref
Push(h, ref, name, obj) ==
    [h EXCEPT ![ref] = SetProp(h[ref], name, Arr(Append(h[ref][name].a, obj)))]

\* if (srcID)
HasSource(srcID) == Truthy(srcID)

\* The body of joinIDPairs.forEach
LinkPair(h, joinSourceObjects, joinDestinationObjects, forwardName, reverseName, pair) ==
    LET id == pair[1]
        srcID == pair[2]
    IN  IF HasSource(srcID)
           /\ srcID \in DOMAIN joinSourceObjects
           /\ id \in DOMAIN joinDestinationObjects
        THEN LET obj == joinDestinationObjects[id]
                 srcObj == joinSourceObjects[srcID]
             IN  Push(Push(h, srcObj, forwardName, obj), obj, reverseName, srcObj)
        ELSE h

\* The relationship name of a stage as parse uses it
RelationshipName(index) ==
    IF camelCase THEN makeCamelCase(Nth(relationships, index))
    ELSE Nth(relationships, index)

\* combinedObjects[index] is an object
HasStage(index) == index + 1 \in 1..Len(combinedObjects)

RECURSIVE SumLen(_)
SumLen(seqs) == IF seqs = <<>> THEN 0 ELSE Len(Head(seqs)) + SumLen(Tail(seqs))

RowsRead == SumLen([i \in 1..Len(data) |-> data[i].objects.rows])

SeqsUpTo(S, n) == UNION {[1..m -> S] : m \in 0..n}

\* join_index of stage index in the responses of the model: the first stage
\* joins nothing, a later stage joins an earlier one
JoinIndexes(index) == IF index = 0 THEN {-1} ELSE 0..(index - 1)

\* The existingObjects of the model: none, or an array that holds, for one
\* stage, the object of the one existing entity (heap[1]) under its id
ExistingChoices(n, id) ==
    {[isArray |-> FALSE, items |-> <<>>]}
    \cup {[isArray |-> TRUE,
           items |-> [i \in 1..n |->
                        IF i = stage + 1
                        THEN [present |-> TRUE, map |-> (id :> 1)]
                        ELSE [present |-> FALSE, map |-> EmptyMap]]]
          : stage \in 0..(n - 1)}

\* The lists of n relationship names of the model. The code looks at a
\* relationship name only to compare it and to camel-case it, so the name of
\* the first stage is the same in all of them.
RelationshipLists(n) ==
    {names \in [1..n -> RelNames] : names[1] = <<"a", "_", "b">>}

\* The id of the existing entity of the model
ExistingID == "1"

ParseInit ==
    /\ ObjectsIdle /\ ConvertIdle /\ ArgsIdle /\ ClientIdle
    /\ PerformIdle /\ QueryIdle /\ OverlapIdle /\ SharedIdle /\ CamelIdle /\ GraphIdle /\ WrapIdle
    /\ \E n \in 1..MaxStages :
         /\ relationships \in RelationshipLists(n)
         /\ \E joins \in [1..n -> -1..(n - 1)] :
              /\ \A i \in 1..n : joins[i] \in JoinIndexes(i - 1)
              /\ results = [i \in 1..n |->
                              [model |-> ModelName(i - 1), join_index |-> joins[i],
                               tree |-> Null]]
         /\ heap = <<ExistingEntity(ExistingID)>>
         /\ existingObjects \in ExistingChoices(n, ExistingID)
    /\ customConstructors = [isArray |-> FALSE, items |-> <<>>]
    /\ camelCase \in BOOLEAN
    /\ data = <<>>
    /\ combinedObjects = <<>>
    /\ trees = <<>>
    /\ pc = "data"
    /\ queryIndex = 0
    /\ pairsRead = 0
    /\ joined = {}

parseArgs == <<relationships, customConstructors, existingObjects, camelCase>>

\* One turn of queryJSONResponse.data.forEach: the stage data is read now
ParseData ==
    /\ pc = "data"
    /\ queryIndex < Len(results)
    /\ \E ids \in SeqsUpTo(IDs, MaxObjects - RowsRead) :
         LET queryData == QueryData(ids)
             queryObjects == parseObjects(queryData,
                                          Nth(results, queryIndex).model,
                                          ConstructorAt(customConstructors, queryIndex),
                                          camelCase)
             objectsByID == GroupQueryObjects(EmptyMap, queryObjects, Len(heap) + 1,
                                              ExistingAt(existingObjects, queryIndex), 1)
         IN  /\ data' = Append(data, queryData)
             /\ heap' = heap \o queryObjects
             /\ combinedObjects' = Append(combinedObjects, objectsByID)
             /\ trees' = Append(trees, Null)
    /\ queryIndex' = IF queryIndex + 1 = Len(results) THEN 0 ELSE queryIndex + 1
    /\ pc' = IF queryIndex + 1 = Len(results) THEN "results" ELSE "data"
    /\ UNCHANGED <<notParse, parseArgs, results, pairsRead, joined>>

\* if (joinSourceObjects && joinDestinationObjects)
BothStages == HasStage(Nth(results, queryIndex).join_index) /\ HasStage(queryIndex)

\* The start of one turn of queryJSONResponse.results.forEach, up to the
\* arrays initialized empty
ParseResult ==
    /\ pc = "results"
    /\ heap' =
         IF BothStages
         THEN InitializeArrays(
                  InitializeArrays(heap,
                                   Nth(combinedObjects, Nth(results, queryIndex).join_index),
                                   RelationshipName(queryIndex)),
                  Nth(combinedObjects, queryIndex),
                  RelationshipName(Nth(results, queryIndex).join_index))
         ELSE heap
    /\ pc' = IF BothStages THEN "pairs" ELSE "tree"
    /\ UNCHANGED <<notParse, parseArgs, data, results, combinedObjects, trees, queryIndex,
                   pairsRead, joined>>

\* One turn of joinIDPairs.forEach: the pair is read now
ParsePair ==
    /\ pc = "pairs"
    /\ pairsRead < MaxPairs
    /\ \E pair \in IDs \X (IDs \cup {Null}) :
         LET joinIndex == Nth(results, queryIndex).join_index
             joinSourceObjects == Nth(combinedObjects, joinIndex)
             joinDestinationObjects == Nth(combinedObjects, queryIndex)
         IN  /\ heap' = LinkPair(heap, joinSourceObjects, joinDestinationObjects,
                                 RelationshipName(queryIndex),
                                 RelationshipName(joinIndex), pair)
             /\ joined' =
                  IF pair[1] \in DOMAIN joinDestinationObjects
                     /\ pair[2] \in DOMAIN joinSourceObjects
                  THEN joined \cup {<<queryIndex, pair[1], pair[2]>>}
                  ELSE joined
    /\ pairsRead' = pairsRead + 1
    /\ UNCHANGED <<notParse, parseArgs, data, results, combinedObjects, trees, pc, queryIndex>>

\* The end of the turn: trees[queryIndex] = queryJSONResponse.results[queryIndex].tree
ParseTree ==
    /\ pc \in {"pairs", "tree"}
    /\ trees' = [trees EXCEPT ![queryIndex + 1] = Nth(results, queryIndex).tree]
    /\ queryIndex' = queryIndex + 1
    /\ pc' = IF queryIndex + 1 = Len(results) THEN "done" ELSE "results"
    /\ UNCHANGED <<notParse, parseArgs, data, results, heap, combinedObjects, pairsRead, joined>>

\* One turn of queryJSONResponse.data.forEach on stage data that has a row
\* and no urls: queryData.urls[objectIndex] throws on the first row, before
\* anything is pushed
ParseDataNoUrls ==
    /\ pc = "data"
    /\ queryIndex < Len(results)
    /\ RowsRead < MaxObjects
    /\ pc' = "threw"
    /\ UNCHANGED <<notParse, parseArgs, data, results, heap, combinedObjects, trees,
                   queryIndex, pairsRead, joined>>

\* One more turn of queryJSONResponse.data.forEach, on a data entry after the
\* last that has a results entry: queryJSONResponse.results[queryIndex].model
\* throws
ParseDataUnmatched ==
    /\ pc = "results"
    /\ queryIndex = 0
    /\ pc' = "threw"
    /\ UNCHANGED <<notParse, parseArgs, data, results, heap, combinedObjects, trees,
                   queryIndex, pairsRead, joined>>

\* One turn of queryJSONResponse.results.forEach on a results entry that has
\* no objects: the arrays are initialized empty, then joinIDPairs.forEach throws
ParseResultNoPairs ==
    /\ pc = "results"
    /\ BothStages
    /\ heap' =
         InitializeArrays(
             InitializeArrays(heap,
                              Nth(combinedObjects, Nth(results, queryIndex).join_index),
                              RelationshipName(queryIndex)),
             Nth(combinedObjects, queryIndex),
             RelationshipName(Nth(results, queryIndex).join_index))
    /\ pc' = "threw"
    /\ UNCHANGED <<notParse, parseArgs, data, results, combinedObjects, trees, queryIndex,
                   pairsRead, joined>>

ParseNext ==
    ParseData \/ ParseResult \/ ParsePair \/ ParseTree \/ ParseDataNoUrls
        \/ ParseDataUnmatched \/ ParseResultNoPairs

SpecParse == ParseInit /\ [][ParseNext]_vars

----------------------------------------------------------------------------
(* _convertResultsToOutput *)

\* The order in which Object.keys gives the identifiers of the model
KeyOrder == <<"0", "1">>

IsKeyOf(object) == [id \in IDs |-> id \in DOMAIN object]

\* CuriousObjects.values(object)
values(object) ==
    LET keys == SelectSeq(KeyOrder, LAMBDA id : IsKeyOf(object)[id])
    IN  [k \in 1..Len(keys) |-> object[keys[k]]]

Digit(n) ==
    CASE n = 0 -> "0" [] n = 1 -> "1" [] n = 2 -> "2" [] n = 3 -> "3" [] n = 4 -> "4"
      [] n = 5 -> "5" [] n = 6 -> "6" [] n = 7 -> "7" [] n = 8 -> "8" [] n = 9 -> "9"

\* String(uniqueIndex), as characters
RECURSIVE String(_)
String(n) == IF n < 10 THEN <<Digit(n)>> ELSE String(n \div 10) \o <<Digit(n % 10)>>

\* UniqueKey with the while loop left out
UniqueKeyAsIs(output_, name, relationship, uniqueIndex) == relationship

\* while (output.hasOwnProperty(relationship)) { ... }: the relationship the
\* loop ends with; name is relationships[objectIndex]
RECURSIVE UniqueKey(_, _, _, _)
UniqueKey(output_, name, relationship, uniqueIndex) ==
    IF relationship \in DOMAIN output_
    THEN UniqueKey(output_, name, name \o String(uniqueIndex), uniqueIndex + 1)
    ELSE relationship

\* The relationship names of the model: two that collide once a number
\* follows the first, and one that makeCamelCase changes
OutputNames == {<<"t">>, <<"t", "2">>, <<"a", "_", "b">>}

\* The objects of stage i of the model: one object, known by the stage
StageObjects(i) == [id \in {"1"} |-> i]

ConvertInit ==
    /\ ParseIdle /\ ObjectsIdle /\ ArgsIdle /\ ClientIdle
    /\ PerformIdle /\ QueryIdle /\ OverlapIdle /\ SharedIdle /\ CamelIdle /\ GraphIdle /\ WrapIdle
    /\ \E n \in 1..MaxNames, camelCase_ \in BOOLEAN :
         \E relationships_ \in [1..n -> OutputNames] :
             convertArgs = [relationships |-> relationships_,
                            objects |-> [i \in 1..n |-> StageObjects(i)],
                            camelCase |-> camelCase_]
    /\ output = EmptyMap
    /\ outputKeys = <<>>

\* One turn of objects.forEach
ConvertObject ==
    /\ convertArgs # <<>>
    /\ Len(outputKeys) < Len(convertArgs.objects)
    /\ LET objectIndex == Len(outputKeys)
           name == Nth(convertArgs.relationships, objectIndex)
           relationship == UniqueKey(output, name,
                                     IF convertArgs.camelCase
                                     THEN makeCamelCase(name) ELSE name,
                                     2)
       IN  /\ output' = [key \in DOMAIN output \cup {relationship} |->
                            IF key = relationship
                            THEN values(Nth(convertArgs.objects, objectIndex))
                            ELSE output[key]]
           /\ outputKeys' = Append(outputKeys, relationship)
    /\ UNCHANGED <<notConvert, convertArgs>>

ConvertNext == ConvertObject

SpecConvert == ConvertInit /\ [][ConvertNext]_vars

----------------------------------------------------------------------------
(* _getArgs and the q of performQuery *)

\* The keys of the model: the two of the built-in defaults, the immutable
\* one, the one performQuery sets, and one more
ArgKeys == {"x", "fk", "d", "q", "r"}

\* params and clientDefaultArgs: null (isObject false) or an object. An
\* object of the model has the same value under all its keys: the value
\* tells which object a value of args comes from
ArgObjects(value) ==
    {[isObject |-> FALSE, object |-> EmptyMap]}
        \cup {[isObject |-> TRUE, object |-> object] :
                  object \in UNION {[keys -> {value}] : keys \in SUBSET ArgKeys}}

ParamsValue == <<"p">>
ClientValue == <<"c">>

\* Override that leaves alone the keys args already has
OverrideMissing(args_, from) ==
    [key \in DOMAIN args_ \cup DOMAIN from |->
        IF key \in DOMAIN args_ THEN args_[key] ELSE from[key]]

\* Object.keys(from).forEach(function (key) { args[key] = from[key]; })
Override(args_, from) ==
    [key \in DOMAIN args_ \cup DOMAIN from |->
        IF key \in DOMAIN from THEN from[key] ELSE args_[key]]

\* if (from) { Object.keys(from).forEach(...) }
OverrideWith(args_, from) == IF from.isObject THEN Override(args_, from.object) ELSE args_

DefaultArgs == [key \in {"x", "fk"} |-> <<"0">>]

ImmutableArgs == [key \in {"d"} |-> <<"1">>]

getArgs(queryArgs, clientDefaultArgs) ==
    Override(OverrideWith(OverrideWith(DefaultArgs, clientDefaultArgs), queryArgs),
             ImmutableArgs)

\* q.replace('\n', ' '): the first newline only
RECURSIVE Replace(_)
Replace(q) ==
    IF q = <<>> THEN <<>>
    ELSE IF Head(q) = "\n" THEN <<" ">> \o Tail(q)
         ELSE <<Head(q)>> \o Replace(Tail(q))

QueryStrings == UNION {[1..m -> {"a", "\n"}] : m \in 0..MaxQuery}

ArgsInit ==
    /\ ParseIdle /\ ObjectsIdle /\ ConvertIdle /\ ClientIdle
    /\ PerformIdle /\ QueryIdle /\ OverlapIdle /\ SharedIdle /\ CamelIdle /\ GraphIdle /\ WrapIdle
    /\ \E q \in QueryStrings :
         \E params \in ArgObjects(ParamsValue) :
             \E clientDefaultArgs \in ArgObjects(ClientValue) :
                 callArgs = [q |-> q, params |-> params,
                             clientDefaultArgs |-> clientDefaultArgs]
    /\ args = EmptyMap
    /\ argsPc = "getArgs"

\* args = _getArgs(params, clientDefaultArgs)
GetArgs ==
    /\ argsPc = "getArgs"
    /\ args' = getArgs(callArgs.params, callArgs.clientDefaultArgs)
    /\ argsPc' = "q"
    /\ UNCHANGED <<notArgs, callArgs>>

\* args.q = q.replace('\n', ' '), and args is given to request
SetQ ==
    /\ argsPc = "q"
    /\ args' = Override(args, [key \in {"q"} |-> Replace(callArgs.q)])
    /\ argsPc' = "request"
    /\ UNCHANGED <<notArgs, callArgs>>

ArgsNext == GetArgs \/ SetQ

SpecArgs == ArgsInit /\ [][ArgsNext]_vars

----------------------------------------------------------------------------
(* performQuery and its promises *)

Pending == [state |-> "pending", value |-> Null]
Fulfilled(value) == [state |-> "fulfilled", value |-> value]
Rejected(reason) == [state |-> "rejected", value |-> reason]

\* What the transport may fulfil its promise with: a response that parse and
\* _convertResultsToOutput turn into a result, and one on which they throw
Responses == {"response", "malformed"}

\* What the transport may reject its promise with
Reasons == {"error1", "error2"}

\* The then callback of performQuery: the promise settles with what it returns or throws
OnFulfilled(response) ==
    IF response = "response" THEN Fulfilled("result") ELSE Rejected("TypeError")

\* A rejection handler that fulfils the promise
OnRejectedSwallow(reason) == Fulfilled(Undefined)

\* then is given no rejection handler: the promise rejects with the same reason
OnRejected(reason) == Rejected(reason)

Calls == 1..Len(invoked)

ClientInit ==
    /\ ParseIdle /\ ObjectsIdle /\ ConvertIdle /\ ArgsIdle
    /\ PerformIdle /\ QueryIdle /\ OverlapIdle /\ SharedIdle /\ CamelIdle /\ GraphIdle /\ WrapIdle
    /\ transportPromise = <<>>
    /\ returnedPromise = <<>>
    /\ invoked = <<>>
    /\ parsed = <<>>
    /\ clientPc = "calls"

\* A call of performQuery: request(this.queryUrl, args).then(...) is returned
PerformQuery ==
    /\ clientPc = "calls"
    /\ Len(invoked) < MaxCalls
    /\ invoked' = Append(invoked, 1)
    /\ transportPromise' = Append(transportPromise, Pending)
    /\ returnedPromise' = Append(returnedPromise, Pending)
    /\ parsed' = Append(parsed, 0)
    /\ UNCHANGED <<notClient, clientPc>>

\* The transport fulfils the promise of a call
TransportFulfil ==
    /\ \E call \in Calls, response \in Responses :
         /\ transportPromise[call] = Pending
         /\ transportPromise' = [transportPromise EXCEPT ![call] = Fulfilled(response)]
    /\ UNCHANGED <<notClient, returnedPromise, invoked, parsed, clientPc>>

\* The transport rejects the promise of a call
TransportReject ==
    /\ \E call \in Calls, reason \in Reasons :
         /\ transportPromise[call] = Pending
         /\ transportPromise' = [transportPromise EXCEPT ![call] = Rejected(reason)]
    /\ UNCHANGED <<notClient, returnedPromise, invoked, parsed, clientPc>>

\* The reaction of then to the fulfilled promise: the callback runs
ReactFulfilled ==
    /\ \E call \in Calls :
         /\ transportPromise[call].state = "fulfilled"
         /\ returnedPromise[call] = Pending
         /\ parsed' = [parsed EXCEPT ![call] = parsed[call] + 1]
         /\ returnedPromise' =
              [returnedPromise EXCEPT ![call] = OnFulfilled(transportPromise[call].value)]
    /\ UNCHANGED <<notClient, transportPromise, invoked, clientPc>>

\* The reaction of then to the rejected promise: no callback runs
ReactRejected ==
    /\ \E call \in Calls :
         /\ transportPromise[call].state = "rejected"
         /\ returnedPromise[call] = Pending
         /\ returnedPromise' =
              [returnedPromise EXCEPT ![call] = OnRejected(transportPromise[call].value)]
    /\ UNCHANGED <<notClient, transportPromise, invoked, parsed, clientPc>>

ClientNext ==
    PerformQuery \/ TransportFulfil \/ TransportReject \/ ReactFulfilled \/ ReactRejected

SpecClient == ClientInit /\ [][ClientNext]_vars

\* The reactions of then are promise jobs, and every promise job runs
SpecClientFair ==
    SpecClient /\ WF_vars(ReactFulfilled) /\ WF_vars(ReactRejected)

----------------------------------------------------------------------------
(* CuriousQuery.then, CuriousQuery.catch and CuriousQuery.perform *)

\* callbacks registered on one query before perform
MaxThens == 2

\* What a caller may pass where a callback is expected
Callbacks == {"function", Undefined}

\* then: this.thens.push([fulfilled, rejected])
then(thens_, fulfilled, rejected) == Append(thens_, <<fulfilled, rejected>>)

\* catch: this.thens.push([null, rejected])
catch(thens_, rejected) == Append(thens_, <<Null, rejected>>)

\* The value a callback returns, and the error it throws
Returned(callback) == "returned" \o ToString(callback)
Thrown(callback) == "thrown" \o ToString(callback)

\* A promise made by then or catch, with the callbacks it was made with
Link(callback, fulfilled, rejected) ==
    [promise |-> Pending, callback |-> callback, fulfilled |-> fulfilled, rejected |-> rejected]

\* The forEach of perform, last pair first
RECURSIVE PerformChainReversed(_, _)
PerformChainReversed(thens_, thenIndex) ==
    IF thenIndex > Len(thens_) THEN <<>>
    ELSE LET last == Len(thens_)
             thenPair == thens_[last]
             rest == PerformChainReversed(SubSeq(thens_, 1, last - 1), thenIndex)
         IN  IF Truthy(thenPair[1])
             THEN <<Link(last, thenPair[1], thenPair[2])>> \o rest
             ELSE IF Len(thenPair) > 1 /\ Truthy(thenPair[2])
             THEN <<Link(last, Undefined, thenPair[2])>> \o rest
             ELSE rest

\* The forEach of perform: the promises chained onto the promise of
\* performQuery by the pairs of thens_ from thenIndex on, in that order
RECURSIVE PerformChain(_, _)
PerformChain(thens_, thenIndex) ==
    IF thenIndex > Len(thens_) THEN <<>>
    ELSE LET thenPair == thens_[thenIndex]
             rest == PerformChain(thens_, thenIndex + 1)
         IN  IF Truthy(thenPair[1])
             THEN <<Link(thenIndex, thenPair[1], thenPair[2])>> \o rest
             ELSE IF Len(thenPair) > 1 /\ Truthy(thenPair[2])
             THEN <<Link(thenIndex, Undefined, thenPair[2])>> \o rest
             ELSE rest

\* The callback the caller attaches to the promise perform returned
CallerCallback == MaxThens + 1

PerformInit ==
    /\ performThens = <<>>
    /\ promises = <<>>
    /\ ran = <<>>
    /\ performPc = "registering"
    /\ ParseIdle /\ ObjectsIdle /\ ConvertIdle /\ ArgsIdle /\ ClientIdle
    /\ QueryIdle /\ OverlapIdle /\ SharedIdle /\ CamelIdle /\ GraphIdle /\ WrapIdle

\* query.then(fulfilled, rejected)
PerformThen ==
    /\ performPc = "registering"
    /\ Len(performThens) < MaxThens
    /\ \E fulfilled \in Callbacks, rejected \in Callbacks :
         performThens' = then(performThens, fulfilled, rejected)
    /\ UNCHANGED <<notPerform, promises, ran, performPc>>

\* query.catch(rejected)
PerformCatch ==
    /\ performPc = "registering"
    /\ Len(performThens) < MaxThens
    /\ \E rejected \in Callbacks : performThens' = catch(performThens, rejected)
    /\ UNCHANGED <<notPerform, promises, ran, performPc>>

\* query.perform(curiousClient): the promise of performQuery and the
\* promises chained onto it; the last of them is returned
Perform ==
    /\ performPc = "registering"
    /\ promises' = <<Link(0, Undefined, Undefined)>> \o PerformChain(performThens, 1)
    /\ performPc' = "performed"
    /\ UNCHANGED <<notPerform, performThens, ran>>

\* The caller calls then or catch on the promise perform returned
CallerThen ==
    /\ performPc = "performed"
    /\ \E fulfilled \in Callbacks, rejected \in Callbacks :
         /\ Truthy(fulfilled) \/ Truthy(rejected)
         /\ promises' = Append(promises, Link(CallerCallback, fulfilled, rejected))
    /\ performPc' = "attached"
    /\ UNCHANGED <<notPerform, performThens, ran>>

\* The promise of performQuery settles
PerformSettle ==
    /\ performPc \in {"performed", "attached"}
    /\ promises[1].promise = Pending
    /\ \E outcome \in {Fulfilled("result"), Rejected("error")} :
         promises' = [promises EXCEPT ![1].promise = outcome]
    /\ UNCHANGED <<notPerform, performThens, ran, performPc>>

\* The reaction of a chained promise to the promise before it: the callback
\* for the way that promise settled runs, and its promise settles with what
\* it returns or throws
PerformReact ==
    /\ performPc \in {"performed", "attached"}
    /\ \E link \in 2..Len(promises) :
         LET before == promises[link - 1].promise
             callback == promises[link].callback
             handler == IF before.state = "fulfilled" THEN promises[link].fulfilled
                        ELSE promises[link].rejected
         IN  /\ before # Pending
             /\ promises[link].promise = Pending
             /\ Truthy(handler)
             /\ ran' = Append(ran, [callback |-> callback, received |-> before])
             /\ \E outcome \in {Fulfilled(Returned(callback)), Rejected(Thrown(callback))} :
                  promises' = [promises EXCEPT ![link].promise = outcome]
    /\ UNCHANGED <<notPerform, performThens, performPc>>

\* The reaction of a chained promise that has no callback for the way the
\* promise before it settled: it settles the same way
PerformPass ==
    /\ performPc \in {"performed", "attached"}
    /\ \E link \in 2..Len(promises) :
         LET before == promises[link - 1].promise
             handler == IF before.state = "fulfilled" THEN promises[link].fulfilled
                        ELSE promises[link].rejected
         IN  /\ before # Pending
             /\ promises[link].promise = Pending
             /\ ~Truthy(handler)
             /\ promises' = [promises EXCEPT ![link].promise = before]
    /\ UNCHANGED <<notPerform, performThens, ran, performPc>>

PerformNext ==
    PerformThen \/ PerformCatch \/ Perform \/ CallerThen \/ PerformSettle
        \/ PerformReact \/ PerformPass

SpecPerform == PerformInit /\ [][PerformNext]_vars

----------------------------------------------------------------------------
(* CuriousQuery: the query chain *)

\* terms of one query chain, the terms of having and notHaving with them
MaxTerms == 2
\* callbacks registered on the query chain
MaxQueryThens == 1

\* A QueryTerm object: its class and the term string it was made with
QueryTermFollow(term) == [kind |-> "follow", term |-> term]
QueryTermHaving(term) == [kind |-> "having", term |-> term]
QueryTermNotHaving(term) == [kind |-> "notHaving", term |-> term]
QueryTermWith(term) == [kind |-> "with", term |-> term]

\* QueryTerm.prototype.conditional and its overrides
conditional(term) == term.kind \in {"having", "notHaving"}

\* QueryTerm.prototype.leftJoin and its override
leftJoin(term) == term.kind = "with"

\* QueryTerm.prototype.toString and its overrides
toString(term) ==
    CASE term.kind = "having" -> "+(" \o term.term \o ")"
      [] term.kind = "notHaving" -> "-(" \o term.term \o ")"
      [] term.kind = "with" -> "?(" \o term.term \o ")"
      [] OTHER -> term.term

\* An element of this.terms: one term, or an array of terms
OneTerm(term) == [isArray |-> FALSE, items |-> <<term>>]
TermArray(items) == [isArray |-> TRUE, items |-> items]

\* query: terms = terms.concat(term), for every element of this.terms
RECURSIVE Flatten(_)
Flatten(terms_) ==
    IF terms_ = <<>> THEN <<>> ELSE Head(terms_).items \o Flatten(Tail(terms_))

\* What query puts before a term when it does not ask whether the term is conditional
SeparatorIgnoringConditional(previous, term) ==
    IF ~leftJoin(previous) /\ ~leftJoin(term) THEN ", " ELSE " "

\* What query puts before a term that follows a left join as if it followed any other term
SeparatorIgnoringPrevious(previous, term) ==
    IF conditional(term) THEN " "
    ELSE IF ~conditional(term) /\ ~leftJoin(term) THEN ", "
    ELSE " "

\* query: what is put before a term that is not the first
Separator(previous, term) ==
    IF conditional(term) THEN " "
    ELSE IF ~conditional(term) /\ ~leftJoin(previous) /\ ~leftJoin(term) THEN ", "
    ELSE " "

\* query: the pieces added to queryString, in order
RECURSIVE QueryPieces(_, _)
QueryPieces(terms_, termIndex) ==
    IF termIndex > Len(terms_) THEN <<>>
    ELSE (IF termIndex > 1
          THEN <<Separator(terms_[termIndex - 1], terms_[termIndex])>>
          ELSE <<>>)
         \o <<toString(terms_[termIndex])>> \o QueryPieces(terms_, termIndex + 1)

\* queryString after the pieces are added to ''
RECURSIVE Concatenate(_)
Concatenate(pieces) ==
    IF pieces = <<>> THEN "" ELSE Head(pieces) \o Concatenate(Tail(pieces))

\* CuriousQuery.prototype.query
query(q) == Concatenate(QueryPieces(Flatten(q.terms), 1))

\* A constructor or a factory function, and null where there is none
Class(name) == [base |-> name, wraps |-> 0]
NoFactory == [base |-> Null, wraps |-> 0]

\* _makeObjectFactory: a function that returns new CustomConstructorClass()
makeObjectFactory(customConstructor) ==
    [base |-> customConstructor.base, wraps |-> customConstructor.wraps + 1]

\* The class of the object a factory returns
Produces(factory) == factory.base

\* params and existingObjects: null, or an object, or an array
NoParams == [isObject |-> FALSE, object |-> <<>>]
Params(object) == [isObject |-> TRUE, object |-> object]
NoObjects == [isArray |-> FALSE, items |-> <<>>]
Objects(items) == [isArray |-> TRUE, items |-> items]

\* new CuriousQuery()
NewQuery ==
    [terms |-> <<>>, relationships |-> <<>>, objectFactories |-> <<>>,
     params |-> NoParams, existingObjects |-> NoObjects, thens |-> <<>>]

\* What a call leaves: the query object, and whether the call threw
Returns(q) == [threw |-> FALSE, query |-> q]
Throws(q) == [threw |-> TRUE, query |-> q]

\* _addTerm that pushes the term before it looks at the relationship
addTermBeforeCheck(q, termObject, relationship, customConstructor) ==
    IF Truthy(relationship)
    THEN Returns([q EXCEPT
             !.terms = Append(@, termObject),
             !.relationships = Append(@, relationship),
             !.objectFactories =
                 Append(@, IF customConstructor # NoFactory
                           THEN makeObjectFactory(customConstructor)
                           ELSE NoFactory)])
    ELSE Throws([q EXCEPT !.terms = Append(@, termObject)])

\* _addTerm; termObject is an object, and every object is truthy
addTerm(q, termObject, relationship, customConstructor) ==
    IF Truthy(relationship)
    THEN Returns([q EXCEPT
             !.terms = Append(@, termObject),
             !.relationships = Append(@, relationship),
             !.objectFactories =
                 Append(@, IF customConstructor # NoFactory
                           THEN makeObjectFactory(customConstructor)
                           ELSE NoFactory)])
    ELSE Throws(q)

\* _appendToPreviousTerm
appendToPreviousTerm(q, termObject) ==
    IF Len(q.terms) > 0
    THEN Returns([q EXCEPT
             !.terms[Len(q.terms)] = TermArray(@.items \o <<termObject>>)])
    ELSE Throws(q)

\* start, follow, having, notHaving, with
start(q, termString, relationship, customConstructor) ==
    addTerm(q, OneTerm(QueryTermFollow(termString)), relationship, customConstructor)
follow(q, termString, relationship, customConstructor) ==
    addTerm(q, OneTerm(QueryTermFollow(termString)), relationship, customConstructor)
having(q, termString) == appendToPreviousTerm(q, QueryTermHaving(termString))
notHaving(q, termString) == appendToPreviousTerm(q, QueryTermNotHaving(termString))
with(q, termString, relationship, customConstructor) ==
    addTerm(q, OneTerm(QueryTermWith(termString)), relationship, customConstructor)

\* wrapDynamically, replacing the factory of the first term
wrapDynamicallyFirst(q, factoryFunction) ==
    IF Len(q.objectFactories) > 0
    THEN Returns([q EXCEPT !.objectFactories[1] = factoryFunction])
    ELSE Throws(q)

\* wrapDynamically
wrapDynamically(q, factoryFunction) ==
    IF Len(q.objectFactories) > 0
    THEN Returns([q EXCEPT !.objectFactories[Len(q.objectFactories)] = factoryFunction])
    ELSE Throws(q)

\* wrapWith
wrapWith(q, customConstructor) == wrapDynamically(q, makeObjectFactory(customConstructor))

\* setParams
setParams(q, params) ==
    IF params.isObject
    THEN [q EXCEPT !.params =
             Params(Override(IF q.params.isObject THEN q.params.object ELSE <<>>, params.object))]
    ELSE q

\* setExistingObjects
setExistingObjects(q, objs) ==
    IF objs.isArray THEN [q EXCEPT !.existingObjects = Objects(objs.items)] ELSE q

\* extend: the forEach over extensionQueryObject.terms, from termIndex on
RECURSIVE extendFrom(_, _, _)
extendFrom(queryObject, extensionQueryObject, termIndex) ==
    IF termIndex > Len(extensionQueryObject.terms) THEN Returns(queryObject)
    ELSE LET added == addTerm(queryObject,
                              extensionQueryObject.terms[termIndex],
                              extensionQueryObject.relationships[termIndex],
                              extensionQueryObject.objectFactories[termIndex])
         IN  IF added.threw THEN added
             ELSE extendFrom(added.query, extensionQueryObject, termIndex + 1)

\* extend that stops after the first term of extensionQueryObject
extendFirst(queryObject, extensionQueryObject) ==
    IF extensionQueryObject.terms = <<>> THEN Returns(queryObject)
    ELSE addTerm(queryObject,
                 extensionQueryObject.terms[1],
                 extensionQueryObject.relationships[1],
                 extensionQueryObject.objectFactories[1])

\* extend
extend(queryObject, extensionQueryObject) == extendFrom(queryObject, extensionQueryObject, 1)

\* clone
clone(q) ==
    LET clonedObject == extend(NewQuery, q).query
    IN  setExistingObjects(setParams(clonedObject, q.params), q.existingObjects)

\* What the caller passes for a term string, a relationship name, a custom
\* constructor, params and existing objects
TermStrings == {"A", Undefined}
RelationshipNames == {"r", Undefined}
QueryConstructors == {NoFactory, Class("K")}
QueryParams == {NoParams, Params([x |-> "1"])}
QueryObjects == {NoObjects, Objects(<<"e">>)}

\* The query objects given to extend
ExtensionChains ==
    { start(NewQuery, "B", "s", Class("K")).query,
      with(start(NewQuery, "B", "s", NoFactory).query, "C", "t", Class("K")).query,
      notHaving(start(NewQuery, "B", "s", Class("K")).query, "D").query }

\* A call of op with these arguments, and whether it threw
Call(op, termString, relationship, threw) ==
    [op |-> op, termString |-> termString, relationship |-> relationship, threw |-> threw]

\* The terms of a chain, the terms of having and notHaving with them
TermCount(q) == Len(Flatten(q.terms))

QueryInit ==
    /\ chain = NewQuery
    /\ extension = <<>>
    /\ cloned = <<>>
    /\ lastCall = Call("new", Null, Null, FALSE)
    /\ queryPc = "chain"
    /\ ParseIdle /\ ObjectsIdle /\ ConvertIdle /\ ArgsIdle /\ ClientIdle
    /\ PerformIdle /\ OverlapIdle /\ SharedIdle /\ CamelIdle /\ GraphIdle /\ WrapIdle

\* chain.start(termString, relationship, customConstructor)
QueryStart ==
    /\ queryPc = "chain" /\ TermCount(chain) < MaxTerms
    /\ \E termString \in TermStrings, relationship \in RelationshipNames,
          customConstructor \in QueryConstructors :
         LET call == start(chain, termString, relationship, customConstructor)
         IN  /\ chain' = call.query
             /\ lastCall' = Call("start", termString, relationship, call.threw)
    /\ UNCHANGED <<notQuery, extension, cloned, queryPc>>

\* chain.follow(termString, relationship, customConstructor)
QueryFollow ==
    /\ queryPc = "chain" /\ TermCount(chain) < MaxTerms
    /\ \E termString \in TermStrings, relationship \in RelationshipNames,
          customConstructor \in QueryConstructors :
         LET call == follow(chain, termString, relationship, customConstructor)
         IN  /\ chain' = call.query
             /\ lastCall' = Call("follow", termString, relationship, call.threw)
    /\ UNCHANGED <<notQuery, extension, cloned, queryPc>>

\* chain.with(termString, relationship, customConstructor)
QueryWith ==
    /\ queryPc = "chain" /\ TermCount(chain) < MaxTerms
    /\ \E termString \in TermStrings, relationship \in RelationshipNames,
          customConstructor \in QueryConstructors :
         LET call == with(chain, termString, relationship, customConstructor)
         IN  /\ chain' = call.query
             /\ lastCall' = Call("with", termString, relationship, call.threw)
    /\ UNCHANGED <<notQuery, extension, cloned, queryPc>>

\* chain.having(termString)
QueryHaving ==
    /\ queryPc = "chain" /\ TermCount(chain) < MaxTerms
    /\ LET call == having(chain, "A")
       IN  /\ chain' = call.query
           /\ lastCall' = Call("having", "A", Null, call.threw)
    /\ UNCHANGED <<notQuery, extension, cloned, queryPc>>

\* chain.notHaving(termString)
QueryNotHaving ==
    /\ queryPc = "chain" /\ TermCount(chain) < MaxTerms
    /\ LET call == notHaving(chain, "A")
       IN  /\ chain' = call.query
           /\ lastCall' = Call("notHaving", "A", Null, call.threw)
    /\ UNCHANGED <<notQuery, extension, cloned, queryPc>>

\* chain.wrapWith(customConstructor)
QueryWrapWith ==
    /\ queryPc = "chain"
    /\ LET call == wrapWith(chain, Class("K"))
       IN  /\ chain' = call.query
           /\ lastCall' = Call("wrapWith", Null, Null, call.threw)
    /\ UNCHANGED <<notQuery, extension, cloned, queryPc>>

\* chain.wrapDynamically(factoryFunction)
QueryWrapDynamically ==
    /\ queryPc = "chain"
    /\ LET call == wrapDynamically(chain, Class("F"))
       IN  /\ chain' = call.query
           /\ lastCall' = Call("wrapDynamically", Null, Null, call.threw)
    /\ UNCHANGED <<notQuery, extension, cloned, queryPc>>

\* chain.setParams(params)
QuerySetParams ==
    /\ queryPc = "chain"
    /\ \E params \in QueryParams : chain' = setParams(chain, params)
    /\ lastCall' = Call("setParams", Null, Null, FALSE)
    /\ UNCHANGED <<notQuery, extension, cloned, queryPc>>

\* chain.setExistingObjects(objs)
QuerySetExistingObjects ==
    /\ queryPc = "chain"
    /\ \E objs \in QueryObjects : chain' = setExistingObjects(chain, objs)
    /\ lastCall' = Call("setExistingObjects", Null, Null, FALSE)
    /\ UNCHANGED <<notQuery, extension, cloned, queryPc>>

\* chain.then(fulfilled)
QueryThen ==
    /\ queryPc = "chain" /\ Len(chain.thens) < MaxQueryThens
    /\ chain' = [chain EXCEPT !.thens = then(@, "function", Undefined)]
    /\ lastCall' = Call("then", Null, Null, FALSE)
    /\ UNCHANGED <<notQuery, extension, cloned, queryPc>>

\* chain.catch(rejected)
QueryCatch ==
    /\ queryPc = "chain" /\ Len(chain.thens) < MaxQueryThens
    /\ chain' = [chain EXCEPT !.thens = catch(@, "function")]
    /\ lastCall' = Call("catch", Null, Null, FALSE)
    /\ UNCHANGED <<notQuery, extension, cloned, queryPc>>

\* chain.extend(extensionQueryObject); extension is the query object it was
\* given, as the call left it
QueryExtend ==
    /\ queryPc = "chain"
    /\ \E extensionQueryObject \in ExtensionChains :
         LET call == extend(chain, extensionQueryObject)
         IN  /\ TermCount(chain) + TermCount(extensionQueryObject) <= MaxTerms
             /\ chain' = call.query
             /\ extension' = <<extensionQueryObject>>
             /\ lastCall' = Call("extend", Null, Null, call.threw)
    /\ UNCHANGED <<notQuery, cloned, queryPc>>

\* chain.clone()
QueryClone ==
    /\ queryPc = "chain"
    /\ cloned' = <<clone(chain)>>
    /\ lastCall' = Call("clone", Null, Null, FALSE)
    /\ queryPc' = "cloned"
    /\ UNCHANGED <<notQuery, chain, extension>>

QueryNext ==
    QueryStart \/ QueryFollow \/ QueryWith \/ QueryHaving \/ QueryNotHaving
        \/ QueryWrapWith \/ QueryWrapDynamically \/ QuerySetParams
        \/ QuerySetExistingObjects \/ QueryThen \/ QueryCatch \/ QueryExtend
        \/ QueryClone

SpecQuery == QueryInit /\ [][QueryNext]_vars

----------------------------------------------------------------------------
(* Two performQuery calls in flight on one client *)

\* The calls in flight
OverlapCalls == 2

\* The caller's entities from earlier queries: the first two objects of the heap
OverlapEntities == {1, 2}
InitialOverlapHeap == <<ExistingEntityAt(1, "1"), ExistingEntityAt(2, "1")>>

\* groupObjectsByID on an array of objects of the heap
RECURSIVE groupObjectsByID(_, _, _)
groupObjectsByID(h, arrayOfObjects, objectsByID) ==
    IF arrayOfObjects = <<>> THEN objectsByID
    ELSE LET object == Head(arrayOfObjects)
             id == GetProp(h[object], N_id).p
         IN  groupObjectsByID(h, Tail(arrayOfObjects),
                              IF id = "0" \/ Truthy(id)
                              THEN AssignByID(objectsByID, id, object)
                              ELSE objectsByID)

\* _groupArraysOfObjectsByID; an entry that is not an array gives null
groupArraysOfObjectsByID(h, arrayOfArraysOfObjects) ==
    [isArray |-> TRUE,
     items |-> [i \in 1..Len(arrayOfArraysOfObjects) |->
                  IF arrayOfArraysOfObjects[i].isArray
                  THEN [present |-> TRUE,
                        map |-> groupObjectsByID(h, arrayOfArraysOfObjects[i].items, EmptyMap)]
                  ELSE [present |-> FALSE, map |-> EmptyMap]]]

\* A relationship name as parse and _convertResultsToOutput use it
CasedName(names, index, camelCase_) ==
    IF camelCase_ THEN makeCamelCase(Nth(names, index)) ELSE Nth(names, index)

\* parse: queryJSONResponse.data.forEach, from stage queryIndex_ on
RECURSIVE MaterializeFrom(_, _, _, _, _, _)
MaterializeFrom(parsed_, response, constructors, existing, camelCase_, queryIndex_) ==
    IF queryIndex_ >= Len(response.data) THEN parsed_
    ELSE LET queryObjects == parseObjects(Nth(response.data, queryIndex_),
                                          Nth(response.results, queryIndex_).model,
                                          ConstructorAt(constructors, queryIndex_),
                                          camelCase_)
             objectsByID == GroupQueryObjects(EmptyMap, queryObjects,
                                              Len(parsed_.heap) + 1,
                                              ExistingAt(existing, queryIndex_), 1)
         IN  MaterializeFrom([heap |-> parsed_.heap \o queryObjects,
                              objects |-> Append(parsed_.objects, objectsByID),
                              trees |-> Append(parsed_.trees, Null)],
                             response, constructors, existing, camelCase_, queryIndex_ + 1)

\* parse: joinIDPairs.forEach
RECURSIVE LinkPairs(_, _, _, _, _, _)
LinkPairs(h, joinSourceObjects, joinDestinationObjects, forwardName, reverseName, joinIDPairs) ==
    IF joinIDPairs = <<>> THEN h
    ELSE LinkPairs(LinkPair(h, joinSourceObjects, joinDestinationObjects,
                            forwardName, reverseName, Head(joinIDPairs)),
                   joinSourceObjects, joinDestinationObjects, forwardName, reverseName,
                   Tail(joinIDPairs))

\* parse: queryJSONResponse.results.forEach, from stage queryIndex_ on
RECURSIVE LinkFrom(_, _, _, _, _)
LinkFrom(parsed_, relationships_, response, camelCase_, queryIndex_) ==
    IF queryIndex_ >= Len(response.results) THEN parsed_
    ELSE LET queryResult == Nth(response.results, queryIndex_)
             joinIndex == queryResult.join_index
             forwardName == CasedName(relationships_, queryIndex_, camelCase_)
             both == /\ joinIndex + 1 \in 1..Len(parsed_.objects)
                     /\ queryIndex_ + 1 \in 1..Len(parsed_.objects)
             linked ==
                 IF both
                 THEN LET joinSourceObjects == Nth(parsed_.objects, joinIndex)
                          joinDestinationObjects == Nth(parsed_.objects, queryIndex_)
                          reverseName == CasedName(relationships_, joinIndex, camelCase_)
                      IN  LinkPairs(
                              InitializeArrays(
                                  InitializeArrays(parsed_.heap, joinSourceObjects, forwardName),
                                  joinDestinationObjects, reverseName),
                              joinSourceObjects, joinDestinationObjects,
                              forwardName, reverseName, queryResult.objects)
                 ELSE parsed_.heap
         IN  LinkFrom([parsed_ EXCEPT
                           !.heap = linked,
                           !.trees[queryIndex_ + 1] = queryResult.tree],
                      relationships_, response, camelCase_, queryIndex_ + 1)

\* parse whose results.forEach leaves out the first stage
parseFromSecondStage(h, relationships_, constructors, response, existing, camelCase_) ==
    LinkFrom(MaterializeFrom([heap |-> h, objects |-> <<>>, trees |-> <<>>],
                             response, constructors, existing, camelCase_, 0),
             relationships_, response, camelCase_, 1)

\* CuriousObjects.parse on the objects of the heap h: the heap after it, and
\* what it returns
parse(h, relationships_, constructors, response, existing, camelCase_) ==
    LinkFrom(MaterializeFrom([heap |-> h, objects |-> <<>>, trees |-> <<>>],
                             response, constructors, existing, camelCase_, 0),
             relationships_, response, camelCase_, 0)

\* _convertResultsToOutput, from stage objectIndex on
RECURSIVE convertResultsToOutput(_, _, _, _, _)
convertResultsToOutput(output_, relationships_, objects_, camelCase_, objectIndex) ==
    IF objectIndex >= Len(objects_) THEN output_
    ELSE LET key == UniqueKey(output_, Nth(relationships_, objectIndex),
                              CasedName(relationships_, objectIndex, camelCase_), 2)
         IN  convertResultsToOutput(
                 [name \in DOMAIN output_ \cup {key} |->
                     IF name = key THEN values(Nth(objects_, objectIndex))
                     ELSE output_[name]],
                 relationships_, objects_, camelCase_, objectIndex + 1)

\* The then callback of performQuery on the heap h: the heap after it and
\* what the promise is fulfilled with
Resolve(h, relationships_, response, groupedExistingObjects) ==
    LET parsedResult == parse(h, relationships_, [isArray |-> FALSE, items |-> <<>>],
                              response, groupedExistingObjects, FALSE)
    IN  [heap |-> parsedResult.heap,
         objects |-> convertResultsToOutput(EmptyMap, relationships_,
                                            parsedResult.objects, FALSE, 0),
         trees |-> parsedResult.trees]

\* The relationships, the existing objects and the params a caller gives a call
OverlapRelationships == {<<<<"a", "_", "b">>, <<"d">>>>}
OverlapExisting ==
    {[isArray |-> FALSE, items |-> <<>>]}
    \cup {[isArray |-> TRUE,
           items |-> [i \in 1..2 |->
                        IF i = stage + 1
                        THEN [isArray |-> TRUE, items |-> <<entity>>]
                        ELSE [isArray |-> FALSE, items |-> <<>>]]]
          : stage \in 0..1, entity \in OverlapEntities}
OverlapParams ==
    {[isObject |-> FALSE, object |-> EmptyMap],
     [isObject |-> TRUE, object |-> [key \in {"x"} |-> ParamsValue]]}

\* A response of the server: two stages of one row each, the second joining
\* the first, with the pair that joins the two rows or with no pair
OverlapResponse(id0, id1, linked) ==
    [data |-> <<QueryData(<<id0>>), QueryData(<<id1>>)>>,
     results |-> <<[model |-> ModelName(0), join_index |-> -1, tree |-> Null,
                    objects |-> <<>>],
                   [model |-> ModelName(1), join_index |-> 0, tree |-> Null,
                    objects |-> IF linked THEN <<<<id1, id0>>>> ELSE <<>>]>>]

OverlapResponses ==
    {OverlapResponse(id0, id1, linked) : id0 \in IDs, id1 \in IDs, linked \in BOOLEAN}

NoResponse == [data |-> <<>>, results |-> <<>>]

OverlapInit ==
    /\ overlapArgs = <<>>
    /\ overlapHeap = InitialOverlapHeap
    /\ overlapResolved = <<>>
    /\ overlapPc = "calls"
    /\ ParseIdle /\ ObjectsIdle /\ ConvertIdle /\ ArgsIdle /\ ClientIdle
    /\ PerformIdle /\ QueryIdle /\ SharedIdle /\ CamelIdle /\ GraphIdle /\ WrapIdle

\* A call of performQuery, up to request(this.queryUrl, args)
OverlapPerformQuery ==
    /\ overlapPc = "calls"
    /\ Len(overlapArgs) < OverlapCalls
    /\ \E relationships_ \in OverlapRelationships, existing \in OverlapExisting,
          params \in OverlapParams :
         overlapArgs' = Append(overlapArgs,
             [relationships |-> relationships_,
              existingObjects |-> existing,
              groupedExistingObjects |->
                  IF existing.isArray
                  THEN groupArraysOfObjectsByID(overlapHeap, existing.items)
                  ELSE existing,
              params |-> params,
              args |-> getArgs(params, [isObject |-> FALSE, object |-> EmptyMap])])
    /\ overlapResolved' = Append(overlapResolved,
           [transport |-> "pending", response |-> NoResponse, resolved |-> FALSE,
            objects |-> EmptyMap, trees |-> <<>>])
    /\ UNCHANGED <<notOverlap, overlapHeap, overlapPc>>

\* The transport fulfils the promise of a call; both calls have started
OverlapFulfil ==
    /\ overlapPc = "calls"
    /\ Len(overlapArgs) = OverlapCalls
    /\ \E call \in 1..OverlapCalls, response \in OverlapResponses :
         /\ overlapResolved[call].transport = "pending"
         /\ overlapResolved' = [overlapResolved EXCEPT
                                    ![call].transport = "fulfilled",
                                    ![call].response = response]
    /\ UNCHANGED <<notOverlap, overlapArgs, overlapHeap, overlapPc>>

\* The then callback of a call runs on the response
OverlapReact ==
    /\ overlapPc = "calls"
    /\ \E call \in 1..Len(overlapArgs) :
         LET result == Resolve(overlapHeap, overlapArgs[call].relationships,
                               overlapResolved[call].response,
                               overlapArgs[call].groupedExistingObjects)
         IN  /\ overlapResolved[call].transport = "fulfilled"
             /\ ~overlapResolved[call].resolved
             /\ overlapHeap' = result.heap
             /\ overlapResolved' = [overlapResolved EXCEPT
                                        ![call].resolved = TRUE,
                                        ![call].objects = result.objects,
                                        ![call].trees = result.trees]
    /\ UNCHANGED <<notOverlap, overlapArgs, overlapPc>>

OverlapNext == OverlapPerformQuery \/ OverlapFulfil \/ OverlapReact

SpecOverlap == OverlapInit /\ [][OverlapNext]_vars

----------------------------------------------------------------------------
(* CuriousQuery objects, and the arrays and objects they hold by reference *)

\* calls made on the query objects
MaxSharedCalls == 4

\* What an element of an array or a property of an object holds: a QueryTerm,
\* a reference to an array or an object of store, or a primitive (a string,
\* null, or a function, known by its name)
NoTerm == [kind |-> "", term |-> ""]
TermSlot(term) == [k |-> "term", term |-> term, ref |-> 0, prim |-> ""]
RefSlot(ref) == [k |-> "ref", term |-> NoTerm, ref |-> ref, prim |-> ""]
PrimSlot(prim) == [k |-> "prim", term |-> NoTerm, ref |-> 0, prim |-> prim]

\* The reference that is null
NullRef == 0

\* What a call leaves: the store, the query object, and whether the call threw
Left(h, queryObject) == [threw |-> FALSE, store |-> h, query |-> queryObject]
Raised(h, queryObject) == [threw |-> TRUE, store |-> h, query |-> queryObject]

\* new CuriousQuery(): its thens are left out
newQueryOnHeap(h) ==
    Left(h \o << <<>>, <<>>, <<>> >>,
         [terms |-> Len(h) + 1, relationships |-> Len(h) + 2,
          objectFactories |-> Len(h) + 3,
          params |-> NullRef, existingObjects |-> NullRef])

\* array.push(element), array being the array at ref
PushOnHeap(h, ref, element) == [h EXCEPT ![ref] = Append(@, element)]

\* _makeObjectFactory: a function that returns new CustomConstructorClass()
FactoryOf(customConstructor) == "new " \o customConstructor

\* _addTerm; termObject is an object or an array, and both are truthy
addTermOnHeap(h, queryObject, termObject, relationship, customConstructor) ==
    IF Truthy(relationship)
    THEN LET pushed == PushOnHeap(PushOnHeap(h, queryObject.terms, termObject),
                                  queryObject.relationships, PrimSlot(relationship))
             factory == IF Truthy(customConstructor) THEN FactoryOf(customConstructor)
                        ELSE Null
         IN  Left(PushOnHeap(pushed, queryObject.objectFactories, PrimSlot(factory)),
                  queryObject)
    ELSE Raised(h, queryObject)

\* _appendToPreviousTerm that pushes onto the last term when it is an array
appendToPreviousTermPushing(h, queryObject, termObject) ==
    LET terms_ == h[queryObject.terms]
        lastTerm == terms_[Len(terms_)]
    IN  IF Len(terms_) > 0
        THEN IF lastTerm.k = "ref"
             THEN Left(PushOnHeap(h, lastTerm.ref, TermSlot(termObject)), queryObject)
             ELSE Left([Append(h, <<lastTerm, TermSlot(termObject)>>)
                           EXCEPT ![queryObject.terms][Len(terms_)] = RefSlot(Len(h) + 1)],
                       queryObject)
        ELSE Raised(h, queryObject)

\* _appendToPreviousTerm: lastTerm.concat(termObject) is a new array
appendToPreviousTermOnHeap(h, queryObject, termObject) ==
    LET terms_ == h[queryObject.terms]
        lastTerm == terms_[Len(terms_)]
        array == IF lastTerm.k = "ref" THEN h[lastTerm.ref] ELSE <<lastTerm>>
    IN  IF Len(terms_) > 0
        THEN Left([Append(h, Append(array, TermSlot(termObject)))
                      EXCEPT ![queryObject.terms][Len(terms_)] = RefSlot(Len(h) + 1)],
                  queryObject)
        ELSE Raised(h, queryObject)

\* wrapDynamically
wrapDynamicallyOnHeap(h, queryObject, factoryFunction) ==
    LET factories == h[queryObject.objectFactories]
    IN  IF Len(factories) > 0
        THEN Left([h EXCEPT ![queryObject.objectFactories][Len(factories)] =
                                PrimSlot(factoryFunction)],
                  queryObject)
        ELSE Raised(h, queryObject)

\* wrapWith
wrapWithOnHeap(h, queryObject, customConstructor) ==
    wrapDynamicallyOnHeap(h, queryObject, FactoryOf(customConstructor))

\* setParams that keeps the object it is given
setParamsKeeping(h, queryObject, params) ==
    IF params # NullRef
    THEN Left(h, [queryObject EXCEPT !.params = params])
    ELSE Left(h, queryObject)

\* setParams; params is a reference to an object, or null
setParamsOnHeap(h, queryObject, params) ==
    IF params # NullRef
    THEN LET made == IF queryObject.params = NullRef THEN Append(h, EmptyMap) ELSE h
             own == IF queryObject.params = NullRef THEN Len(h) + 1
                    ELSE queryObject.params
         IN  Left([made EXCEPT ![own] = Override(@, h[params])],
                  [queryObject EXCEPT !.params = own])
    ELSE Left(h, queryObject)

\* setExistingObjects; objs is a reference to an array, or null
setExistingObjectsOnHeap(h, queryObject, objs) ==
    IF objs # NullRef
    THEN Left(Append(h, h[objs]), [queryObject EXCEPT !.existingObjects = Len(h) + 1])
    ELSE Left(h, queryObject)

\* extend: the forEach over extensionQueryObject.terms, from termIndex on
RECURSIVE extendOnHeap(_, _, _, _)
extendOnHeap(h, queryObject, extensionQueryObject, termIndex) ==
    IF termIndex > Len(h[extensionQueryObject.terms]) THEN Left(h, queryObject)
    ELSE LET added == addTermOnHeap(
                          h, queryObject,
                          h[extensionQueryObject.terms][termIndex],
                          h[extensionQueryObject.relationships][termIndex].prim,
                          h[extensionQueryObject.objectFactories][termIndex].prim)
         IN  IF added.threw THEN added
             ELSE extendOnHeap(added.store, queryObject, extensionQueryObject,
                               termIndex + 1)

\* clone
cloneOnHeap(h, queryObject) ==
    LET clonedObject == newQueryOnHeap(h)
        extended == extendOnHeap(clonedObject.store, clonedObject.query, queryObject, 1)
        withParams == setParamsOnHeap(extended.store, extended.query, queryObject.params)
    IN  IF extended.threw THEN extended
        ELSE setExistingObjectsOnHeap(withParams.store, withParams.query,
                                      queryObject.existingObjects)

\* The QueryTerm objects of a query object, as query flattens this.terms
RECURSIVE FlattenOnHeap(_, _)
FlattenOnHeap(h, terms_) ==
    IF terms_ = <<>> THEN <<>>
    ELSE (IF Head(terms_).k = "ref"
          THEN [index \in 1..Len(h[Head(terms_).ref]) |-> h[Head(terms_).ref][index].term]
          ELSE <<Head(terms_).term>>)
         \o FlattenOnHeap(h, Tail(terms_))

\* CuriousQuery.prototype.query
queryOnHeap(h, queryObject) ==
    Concatenate(QueryPieces(FlattenOnHeap(h, h[queryObject.terms]), 1))

\* null is neither an object nor an array: reading a property of it throws
IsNullSlot(element) == element.k = "prim" /\ element.prim \in {Null, Undefined}

\* toJSON: whether it throws, and the object it returns when it does not;
\* no existing object of the model has a toJSON of its own
toJSON(h, queryObject) ==
    LET existing == h[queryObject.existingObjects]
        threw ==
            \/ queryObject.existingObjects = NullRef
            \/ \E ix \in 1..Len(existing) :
                   \/ IsNullSlot(existing[ix])
                   \/ \E at \in 1..Len(h[existing[ix].ref]) :
                          IsNullSlot(h[existing[ix].ref][at])
    IN  IF threw THEN [threw |-> TRUE, json |-> EmptyMap]
        ELSE [threw |-> FALSE,
              json |-> [terms |-> h[queryObject.terms],
                        relationships |-> h[queryObject.relationships],
                        params |-> IF queryObject.params = NullRef THEN EmptyMap
                                   ELSE h[queryObject.params],
                        objectFactories |-> h[queryObject.objectFactories],
                        existingObjects |->
                            [ix \in 1..Len(existing) |-> h[existing[ix].ref]]]]

\* The caller's objects, the first of store: two objects of params, an array
\* of existing objects with null for its second stage, the array of its
\* first stage, and the object in that array
SomeParams == 1
OtherParams == 2
SomeObjects == 3
InitialStore ==
    << [a |-> PrimSlot("b")],
       [c |-> PrimSlot("d")],
       <<RefSlot(4), PrimSlot(Null)>>,
       <<RefSlot(5)>>,
       [id |-> PrimSlot("1")] >>

\* A call of op on the query object target with this argument, and whether
\* it threw
SharedCall(op, target, argument, threw) ==
    [op |-> op, target |-> target, argument |-> argument, threw |-> threw]

\* The query object target is as the call of op left it
SharedReturn(op, target, argument, result) ==
    /\ store' = result.store
    /\ queries' = [queries EXCEPT ![target] = result.query]
    /\ sharedCall' = SharedCall(op, target, argument, result.threw)
    /\ sharedCalls' = sharedCalls + 1
    /\ UNCHANGED <<notShared, sharedPc>>

\* A query object takes a call
SharedTarget(target) ==
    /\ sharedPc = "calls" /\ sharedCalls < MaxSharedCalls
    /\ target \in DOMAIN queries

SharedInit ==
    /\ store = newQueryOnHeap(InitialStore).store
    /\ queries = <<newQueryOnHeap(InitialStore).query>>
    /\ sharedCall = SharedCall("new", 1, NullRef, FALSE)
    /\ sharedCalls = 0
    /\ sharedPc = "calls"
    /\ ParseIdle /\ ObjectsIdle /\ ConvertIdle /\ ArgsIdle /\ ClientIdle
    /\ PerformIdle /\ QueryIdle /\ OverlapIdle /\ CamelIdle /\ GraphIdle /\ WrapIdle

\* target.start('A', 'r', customConstructor)
SharedStart ==
    \E target \in DOMAIN queries, customConstructor \in {Undefined, "K"} :
        /\ SharedTarget(target)
        /\ SharedReturn("start", target, NullRef,
               addTermOnHeap(store, queries[target],
                             TermSlot(QueryTermFollow("A")), "r", customConstructor))

\* target.follow('B', 's')
SharedFollow ==
    \E target \in DOMAIN queries :
        /\ SharedTarget(target)
        /\ SharedReturn("follow", target, NullRef,
               addTermOnHeap(store, queries[target],
                             TermSlot(QueryTermFollow("B")), "s", Undefined))

\* target.with('C', 't')
SharedWith ==
    \E target \in DOMAIN queries :
        /\ SharedTarget(target)
        /\ SharedReturn("with", target, NullRef,
               addTermOnHeap(store, queries[target],
                             TermSlot(QueryTermWith("C")), "t", Undefined))

\* target.having('D')
SharedHaving ==
    \E target \in DOMAIN queries :
        /\ SharedTarget(target)
        /\ SharedReturn("having", target, NullRef,
               appendToPreviousTermOnHeap(store, queries[target],
                                          QueryTermHaving("D")))

\* target.notHaving('E')
SharedNotHaving ==
    \E target \in DOMAIN queries :
        /\ SharedTarget(target)
        /\ SharedReturn("notHaving", target, NullRef,
               appendToPreviousTermOnHeap(store, queries[target],
                                          QueryTermNotHaving("E")))

\* target.wrapWith(K)
SharedWrapWith ==
    \E target \in DOMAIN queries :
        /\ SharedTarget(target)
        /\ SharedReturn("wrapWith", target, NullRef,
               wrapWithOnHeap(store, queries[target], "K"))

\* target.wrapDynamically(F)
SharedWrapDynamically ==
    \E target \in DOMAIN queries :
        /\ SharedTarget(target)
        /\ SharedReturn("wrapDynamically", target, NullRef,
               wrapDynamicallyOnHeap(store, queries[target], "F"))

\* target.setParams(params), with one of the caller's objects or with nothing
SharedSetParams ==
    \E target \in DOMAIN queries, params \in {NullRef, SomeParams, OtherParams} :
        /\ SharedTarget(target)
        /\ SharedReturn("setParams", target, params,
               setParamsOnHeap(store, queries[target], params))

\* target.setExistingObjects(objs), with the caller's array or with nothing
SharedSetExistingObjects ==
    \E target \in DOMAIN queries, objs \in {NullRef, SomeObjects} :
        /\ SharedTarget(target)
        /\ SharedReturn("setExistingObjects", target, objs,
               setExistingObjectsOnHeap(store, queries[target], objs))

\* c = q.clone()
SharedClone ==
    /\ SharedTarget(1) /\ Len(queries) = 1
    /\ LET result == cloneOnHeap(store, queries[1])
       IN  /\ store' = result.store
           /\ queries' = Append(queries, result.query)
           /\ sharedCall' = SharedCall("clone", 1, NullRef, result.threw)
    /\ sharedCalls' = sharedCalls + 1
    /\ UNCHANGED <<notShared, sharedPc>>

\* someParams.a = 'moop', by the caller
SharedAssign ==
    /\ sharedPc = "calls"
    /\ store[SomeParams].a # PrimSlot("moop")
    /\ store' = [store EXCEPT ![SomeParams].a = PrimSlot("moop")]
    /\ sharedCall' = SharedCall("assign", 1, SomeParams, FALSE)
    /\ UNCHANGED <<notShared, queries, sharedCalls, sharedPc>>

SharedNext ==
    SharedStart \/ SharedFollow \/ SharedWith \/ SharedHaving \/ SharedNotHaving
        \/ SharedWrapWith \/ SharedWrapDynamically \/ SharedSetParams
        \/ SharedSetExistingObjects \/ SharedClone \/ SharedAssign

SpecShared == SharedInit /\ [][SharedNext]_vars

----------------------------------------------------------------------------
(* Calls of makeCamelCase *)

\* characters of the string given to makeCamelCase
MaxInput == 4

\* The characters of the strings given to makeCamelCase: a lower-case letter,
\* an upper-case letter and the two separators
InputCharacters == {"a", "B", "_", "-"}

\* What makeCamelCase is given and what it returns: a string, or null, or
\* undefined
StringValue(string) == [isString |-> TRUE, string |-> string, value |-> ""]
EmptyValue(value) == [isString |-> FALSE, string |-> <<>>, value |-> value]

InputStrings ==
    UNION {[1..length -> InputCharacters] : length \in 0..MaxInput}

\* makeCamelCase called with a string, with null or with nothing: null and
\* undefined are falsy, and output = input is returned
makeCamelCaseOf(input) ==
    IF input.isString THEN StringValue(makeCamelCase(input.string)) ELSE input

CamelInit ==
    /\ camelInput \in {StringValue(string) : string \in InputStrings}
                          \cup {EmptyValue(Null), EmptyValue(Undefined)}
    /\ camelOutput = <<>>
    /\ camelPc = "call"
    /\ ParseIdle /\ ObjectsIdle /\ ConvertIdle /\ ArgsIdle /\ ClientIdle
    /\ PerformIdle /\ QueryIdle /\ OverlapIdle /\ SharedIdle /\ GraphIdle /\ WrapIdle

\* makeCamelCase(input)
CamelCase ==
    /\ camelPc = "call"
    /\ camelOutput' = <<makeCamelCaseOf(camelInput)>>
    /\ camelPc' = "returned"
    /\ UNCHANGED <<notCamel, camelInput>>

CamelNext == CamelCase

SpecCamel == CamelInit /\ [][CamelNext]_vars

----------------------------------------------------------------------------
(* CuriousObjects.parse on whole responses *)

\* join ID pairs of one stage of a response
MaxGraphPairs == 1

\* The stages of the responses
GraphStages == 2

\* The relationships given to parse
GraphRelationships == <<<<"a", "_", "b">>, <<"d">>>>

\* What a response may declare for a stage: the identifiers of its rows (a
\* later row may repeat the identifier of an earlier one), the stage it
\* joins (none, itself or the other), its join ID pairs, its tree
GraphRows == {<<"0", "1">>, <<"1", "1">>}
GraphJoinIndexes == -1..(GraphStages - 1)
GraphPairs == {<<"1", "1">>, <<"0", "1">>, <<"1", Null>>}
GraphTrees == {Null, "tree"}

GraphStage(stage) ==
    {[data |-> QueryData(ids),
      result |-> [model |-> ModelName(stage), join_index |-> joinIndex,
                  tree |-> tree, objects |-> joinIDPairs]] :
        ids \in GraphRows, joinIndex \in GraphJoinIndexes,
        joinIDPairs \in SeqsUpTo(GraphPairs, MaxGraphPairs), tree \in GraphTrees}

\* queryJSONResponse, of the stages first and second
GraphResponse(first, second) ==
    [data |-> <<first.data, second.data>>, results |-> <<first.result, second.result>>]

GraphInit ==
    /\ \E first \in GraphStage(0), second \in GraphStage(1) :
         graphResponse = GraphResponse(first, second)
    /\ graphExisting \in ExistingChoices(GraphStages, ExistingID)
    /\ graphHeap = <<ExistingEntity(ExistingID)>>
    /\ graphParsed = <<>>
    /\ graphPc = "call"
    /\ ParseIdle /\ ObjectsIdle /\ ConvertIdle /\ ArgsIdle /\ ClientIdle
    /\ PerformIdle /\ QueryIdle /\ OverlapIdle /\ SharedIdle /\ CamelIdle /\ WrapIdle

\* CuriousObjects.parse(relationships, null, queryJSONResponse, existingObjects)
GraphParse ==
    /\ graphPc = "call"
    /\ LET parsedResult == parse(graphHeap, GraphRelationships,
                                 [isArray |-> FALSE, items |-> <<>>],
                                 graphResponse, graphExisting, FALSE)
       IN  /\ graphHeap' = parsedResult.heap
           /\ graphParsed' = <<[objects |-> parsedResult.objects,
                                trees |-> parsedResult.trees]>>
    /\ graphPc' = "returned"
    /\ UNCHANGED <<notGraph, graphResponse, graphExisting>>

GraphNext == GraphParse

SpecGraph == GraphInit /\ [][GraphNext]_vars

----------------------------------------------------------------------------
(* A custom constructor, from the query chain to _parseObjects *)

\* A call of a function: the function and the arguments it was called with
Invocation(function, arguments_) == [function |-> function, arguments |-> arguments_]

\* The calls made when a function is called with these arguments: a factory
\* of _makeObjectFactory calls new CustomConstructorClass(), with no
\* argument, whatever it was called with; a constructor and a factory of the
\* caller call nothing more
RECURSIVE Invocations(_, _)
Invocations(function, arguments_) ==
    <<Invocation(function, arguments_)>>
    \o (IF function.wraps > 0
        THEN Invocations([function EXCEPT !.wraps = @ - 1], <<>>)
        ELSE <<>>)

\* The objectData of a row of queryData
ObjectData(queryData, objectIndex) ==
    CombineFields(EmptyObject, queryData.fields, queryData.objects.rows[objectIndex], 1)

WrapInit ==
    /\ wrapQuery = NewQuery
    /\ wrapData = <<>>
    /\ wrapCalls = <<>>
    /\ wrapRows = 0
    /\ wrapPc = "new"
    /\ ParseIdle /\ ObjectsIdle /\ ConvertIdle /\ ArgsIdle /\ ClientIdle
    /\ PerformIdle /\ QueryIdle /\ OverlapIdle /\ SharedIdle /\ CamelIdle /\ GraphIdle

\* query.start('A', 'r', customConstructor), with a constructor or without
WrapStart ==
    /\ wrapPc = "new"
    /\ \E customConstructor \in QueryConstructors :
         wrapQuery' = start(wrapQuery, "A", "r", customConstructor).query
    /\ wrapPc' = "chain"
    /\ UNCHANGED <<notWrap, wrapData, wrapCalls, wrapRows>>

\* query.wrapWith(W)
WrapWrapWith ==
    /\ wrapPc = "chain"
    /\ wrapQuery' = wrapWith(wrapQuery, Class("W")).query
    /\ UNCHANGED <<notWrap, wrapData, wrapCalls, wrapRows, wrapPc>>

\* query.wrapDynamically(F)
WrapWrapDynamically ==
    /\ wrapPc = "chain"
    /\ wrapQuery' = wrapDynamically(wrapQuery, Class("F")).query
    /\ UNCHANGED <<notWrap, wrapData, wrapCalls, wrapRows, wrapPc>>

\* query.perform(curiousClient), up to the call of _parseObjects on the one
\* stage of the response: this.objectFactories are the constructors of
\* performQuery, and customConstructors[0] the customConstructor of
\* _parseObjects
WrapPerform ==
    /\ wrapPc = "chain"
    /\ \E fields \in FieldLists(MaxFields), n \in 0..MaxRows :
         wrapData' = <<StageData(fields, n, TRUE)>>
    /\ wrapPc' = "forEach"
    /\ UNCHANGED <<notWrap, wrapQuery, wrapCalls, wrapRows>>

\* One turn of queryData.objects.forEach: new CustomConstructorClass(objectData)
\* when there is a customConstructor
WrapRow ==
    /\ wrapPc = "forEach"
    /\ wrapRows < Len(wrapData[1].objects.rows)
    /\ LET customConstructor == wrapQuery.objectFactories[1]
       IN  wrapCalls' =
               IF customConstructor # NoFactory
               THEN wrapCalls \o Invocations(customConstructor,
                                             <<ObjectData(wrapData[1], wrapRows + 1)>>)
               ELSE wrapCalls
    /\ wrapRows' = wrapRows + 1
    /\ UNCHANGED <<notWrap, wrapQuery, wrapData, wrapPc>>

\* The end of queryData.objects.forEach
WrapEnd ==
    /\ wrapPc = "forEach"
    /\ wrapRows = Len(wrapData[1].objects.rows)
    /\ wrapPc' = "returned"
    /\ UNCHANGED <<notWrap, wrapQuery, wrapData, wrapCalls, wrapRows>>

WrapNext ==
    WrapStart \/ WrapWrapWith \/ WrapWrapDynamically \/ WrapPerform \/ WrapRow \/ WrapEnd

SpecWrap == WrapInit /\ [][WrapNext]_vars

----------------------------------------------------------------------------
(* The whole model *)

Init ==
    ParseInit \/ ObjectsInit \/ ConvertInit \/ ArgsInit \/ ClientInit
        \/ PerformInit \/ QueryInit \/ OverlapInit \/ SharedInit \/ CamelInit \/ GraphInit \/ WrapInit

Next ==
    ParseNext \/ ObjectsNext \/ ConvertNext \/ ArgsNext \/ ClientNext
        \/ PerformNext \/ QueryNext \/ OverlapNext \/ SharedNext \/ CamelNext \/ GraphNext \/ WrapNext

Spec == Init /\ [][Next]_vars

----------------------------------------------------------------------------
(* Properties of CuriousObjects.parse *)

Elements(array) == {array[k] : k \in 1..Len(array)}

\* The object at ref has an array under name
HasArray(h, ref, name) == name \in DOMAIN h[ref] /\ h[ref][name].k = "a"

\* The elements of the array under name of the object at ref
Related(h, ref, name) == IF HasArray(h, ref, name) THEN Elements(h[ref][name].a) ELSE {}

\* The stages whose map is built
BuiltStages == 0..(Len(combinedObjects) - 1)

StageMap(index) == Nth(combinedObjects, index)

JoinIndexOf(index) == Nth(results, index).join_index

\* The identifiers of the rows of a stage
RowIDs(index) ==
    {Nth(data, index).objects.rows[k][1] :
        k \in 1..Len(Nth(data, index).objects.rows)}

\* The object made from row k of a stage: the objects of the stages are put
\* on the heap in the order of the rows, after the existing entity
RowObject(index, k) ==
    1 + SumLen([i \in 1..index |-> data[i].objects.rows]) + k

\* The last row of a stage with the identifier id
LastRow(index, id) ==
    CHOOSE k \in 1..Len(Nth(data, index).objects.rows) :
        /\ Nth(data, index).objects.rows[k][1] = id
        /\ \A later \in (k + 1)..Len(Nth(data, index).objects.rows) :
               Nth(data, index).objects.rows[later][1] # id

\* C1. Relationship symmetry: once parse has finished, for every join ID pair
\* <<id, srcID>> of a stage whose id is a key of the stage's map and whose
\* srcID is a key of the map of the stage it joins, the source's array under
\* the stage's relationship name holds the target and the target's array under
\* the joined stage's relationship name holds the source.
C1_RelationshipSymmetry ==
    pc = "done" =>
        \A edge \in joined :
            LET stage == edge[1]
                target == StageMap(stage)[edge[2]]
                source == StageMap(JoinIndexOf(stage))[edge[3]]
            IN  /\ target \in Related(heap, source, RelationshipName(stage))
                /\ source \in Related(heap, target, RelationshipName(JoinIndexOf(stage)))

\* C2. Edge exactness: in the link pass of a stage, a join ID pair <<id, srcID>>
\* adds the target to the source's forward array and the source to the
\* target's reverse array if srcID is not null, id is a key of the stage's map
\* and srcID is a key of the joined stage's map; otherwise it changes nothing.
\* The pairs range over all identifiers, 0 included.
C2_EdgeExactness ==
    pc = "pairs" =>
        \A pair \in IDs \X (IDs \cup {Null}) :
            LET joinSourceObjects == StageMap(JoinIndexOf(queryIndex))
                joinDestinationObjects == StageMap(queryIndex)
                forward == RelationshipName(queryIndex)
                reverse == RelationshipName(JoinIndexOf(queryIndex))
                after == LinkPair(heap, joinSourceObjects, joinDestinationObjects,
                                  forward, reverse, pair)
            IN  IF pair[2] # Null
                   /\ pair[1] \in DOMAIN joinDestinationObjects
                   /\ pair[2] \in DOMAIN joinSourceObjects
                THEN LET obj == joinDestinationObjects[pair[1]]
                         srcObj == joinSourceObjects[pair[2]]
                     IN  /\ after[srcObj][forward].a # heap[srcObj][forward].a
                         /\ after[obj][reverse].a # heap[obj][reverse].a
                         /\ obj \in Related(after, srcObj, forward)
                         /\ srcObj \in Related(after, obj, reverse)
                ELSE after = heap

\* C3. Existing-object substitution: when existingObjects has an entry for a
\* stage under an identifier that a row of the stage carries, then once parse
\* has finished the stage map holds the existing entity under that
\* identifier, and the existing entity has, under every name that parse
\* gives a field of a row's object, what it had before parse.
C3_ExistingSubstitution ==
    pc = "done" =>
        \A stage \in BuiltStages :
            \A id \in DOMAIN ExistingAt(existingObjects, stage) \cap RowIDs(stage) :
                LET existing == ExistingAt(existingObjects, stage)[id]
                IN  /\ StageMap(stage)[id] = existing
                    /\ \A k \in 1..Len(Nth(data, stage).objects.rows) :
                           \A name \in DOMAIN heap[RowObject(stage, k)] :
                               \/ HasArray(heap, RowObject(stage, k), name)
                               \/ GetProp(heap[existing], name)
                                      = GetProp(ExistingEntity(ExistingID), name)

\* C3's case: parse has finished, a stage map holds the existing entity and
\* the link pass has put an object in one of its relationship arrays
C3_Witness ==
    /\ pc = "done"
    /\ \E stage \in BuiltStages :
         /\ ExistingID \in DOMAIN ExistingAt(existingObjects, stage) \cap RowIDs(stage)
         /\ StageMap(stage)[ExistingID] = 1
    /\ \E name \in DOMAIN heap[1] : Related(heap, 1, name) \ {1} # {}

\* C4. Relationship arrays always exist: once parse has finished, for every
\* stage that joins a stage of the response, every entity of the joined
\* stage's map has an array under the stage's relationship name and every
\* entity of the stage's map has an array under the joined stage's name.
C4_ArraysExist ==
    pc = "done" =>
        \A stage \in BuiltStages :
            JoinIndexOf(stage) \in BuiltStages =>
                /\ \A ref \in Range(StageMap(JoinIndexOf(stage))) :
                       HasArray(heap, ref, RelationshipName(stage))
                /\ \A ref \in Range(StageMap(stage)) :
                       HasArray(heap, ref, RelationshipName(JoinIndexOf(stage)))

\* C4's case: parse has finished and a stage that joins another holds an
\* entity that no pair has linked, its reverse array empty, beside an entity
\* that is linked
C4_Witness ==
    /\ pc = "done"
    /\ \E stage \in BuiltStages :
         /\ JoinIndexOf(stage) \in BuiltStages
         /\ \E ref, other \in Range(StageMap(stage)) :
              /\ HasArray(heap, ref, RelationshipName(JoinIndexOf(stage)))
              /\ Related(heap, ref, RelationshipName(JoinIndexOf(stage))) = {}
              /\ Related(heap, other, RelationshipName(JoinIndexOf(stage))) # {}

\* C5. Duplicate identifiers within one stage: once parse has finished, a
\* stage map has exactly one entry for each identifier the stage's rows
\* carry and no other entry; it is the existing entity when one is supplied
\* for the identifier, and the object of the last row with the identifier
\* otherwise.
C5_LastRowWins ==
    pc = "done" =>
        \A stage \in BuiltStages :
            /\ DOMAIN StageMap(stage) = RowIDs(stage)
            /\ \A id \in RowIDs(stage) :
                   StageMap(stage)[id] =
                       IF id \in DOMAIN ExistingAt(existingObjects, stage)
                       THEN ExistingAt(existingObjects, stage)[id]
                       ELSE RowObject(stage, LastRow(stage, id))

\* C5's case: parse has finished on a stage with two rows of one identifier
\* and no existing entity for it, and on a stage with two rows of one
\* identifier that has an existing entity
C5_Witness ==
    /\ pc = "done"
    /\ \E stage \in BuiltStages :
         \E k1, k2 \in 1..Len(Nth(data, stage).objects.rows) :
             /\ k1 < k2
             /\ Nth(data, stage).objects.rows[k1][1] = Nth(data, stage).objects.rows[k2][1]
             /\ Nth(data, stage).objects.rows[k1][1]
                    \notin DOMAIN ExistingAt(existingObjects, stage)
             /\ StageMap(stage)[Nth(data, stage).objects.rows[k1][1]]
                    = RowObject(stage, k2)

\* The row of a stage that the entity at ref stands for: the last row with
\* the identifier of the entity
RowOf(index, ref) == LastRow(index, GetProp(heap[ref], N_id).p)

\* C15, as first stated: once parse has finished, the entities in the array a
\* join-source entity has under a stage's relationship name are in the order
\* of the rows of that stage.
C15_RowOrder ==
    pc = "done" =>
        \A stage \in BuiltStages :
            JoinIndexOf(stage) \in BuiltStages =>
                \A source \in Range(StageMap(JoinIndexOf(stage))) :
                    HasArray(heap, source, RelationshipName(stage)) =>
                        LET forward == heap[source][RelationshipName(stage)].a
                        IN  \A first, second \in 1..Len(forward) :
                                (first < second
                                   /\ forward[first] \in Range(StageMap(stage))
                                   /\ forward[second] \in Range(StageMap(stage)))
                                    => RowOf(stage, forward[first]) <= RowOf(stage, forward[second])

\* C15: the entities in a relationship array are in the order of the join ID
\* pairs that put them there: a join ID pair leaves every relationship array
\* as it was or adds one entity at its end.
C15_PairOrder ==
    [][(pc = "pairs" /\ pairsRead' = pairsRead + 1) =>
         \A ref \in 1..Len(heap) :
             \A name \in DOMAIN heap[ref] :
                 HasArray(heap, ref, name) =>
                     /\ HasArray(heap', ref, name)
                     /\ \/ heap'[ref][name].a = heap[ref][name].a
                        \/ /\ Len(heap'[ref][name].a) = Len(heap[ref][name].a) + 1
                           /\ Front(heap'[ref][name].a) = heap[ref][name].a]_vars

\* C15: parse has finished, and a join-source entity has under a stage's
\* relationship name the entity of a later row before the entity of an
\* earlier row
C15_Witness ==
    /\ pc = "done"
    /\ \E stage \in BuiltStages :
         /\ JoinIndexOf(stage) \in BuiltStages
         /\ \E source \in Range(StageMap(JoinIndexOf(stage))) :
              /\ HasArray(heap, source, RelationshipName(stage))
              /\ LET forward == heap[source][RelationshipName(stage)].a
                 IN  /\ Len(forward) = 2
                     /\ forward[1] \in Range(StageMap(stage))
                     /\ forward[2] \in Range(StageMap(stage))
                     /\ RowOf(stage, forward[1]) > RowOf(stage, forward[2])

\* The existing entity is in a stage map
ExistingInMap == \E stage \in BuiltStages : 1 \in Range(StageMap(stage))

\* C17: parse changes no property that an existing entity of a stage map had
\* before the call; all that changes is that relationship arrays are added
\* under names the entity had no property under.
C17_ExistingFrame ==
    ExistingInMap =>
        /\ \A name \in DOMAIN ExistingEntity(ExistingID) :
               /\ name \in DOMAIN heap[1]
               /\ heap[1][name] = ExistingEntity(ExistingID)[name]
        /\ \A name \in DOMAIN heap[1] \ DOMAIN ExistingEntity(ExistingID) :
               HasArray(heap, 1, name)

\* C18: parse raises no error on a response whose data is a list, whatever
\* is absent from it: the urls of a stage, the join ID pairs of a stage, the
\* results entry of a data entry.
C18_NoThrow == pc # "threw"

----------------------------------------------------------------------------
(* Properties of _parseObjects *)

\* The name an object has a declared field under
NewFieldName(fieldName) ==
    IF parseObjectsArgs.camelCase THEN makeCamelCase(fieldName) ELSE fieldName

DeclaredFields == parseObjectsArgs.queryData.fields

\* No later position of the fields list declares the name of position j
IsLastPosition(j) ==
    \A later \in (j + 1)..Len(DeclaredFields) :
        NewFieldName(DeclaredFields[later]) # NewFieldName(DeclaredFields[j])

\* No other position of the fields list declares the name of position j
IsOnlyPosition(j) ==
    \A other \in 1..Len(DeclaredFields) \ {j} :
        NewFieldName(DeclaredFields[other]) # NewFieldName(DeclaredFields[j])

\* The value of row k at position j
RowValue(k, j) == Prim(parseObjectsArgs.queryData.objects.rows[k][j])

\* Object k has the url of row k and the model name
IsStamped(k) ==
    /\ GetProp(objects[k], N_url) = Prim(parseObjectsArgs.queryData.urls[k])
    /\ GetProp(objects[k], N_model) = Prim(parseObjectsArgs.model)

\* C6. Materialization count law, as first stated: when _parseObjects
\* returns, for stage data of N rows it has made N objects in the order of
\* the rows; object k has under every declared field's name (the name as
\* makeCamelCase gives it when camelCase is on) the value of row k at the
\* field's position, so also its id, has __url equal to urls[k] and __model
\* equal to the model name; when queryData.objects is not an array the
\* result is empty. A name that several positions declare has no position
\* of its own, and the law is stated of the other names.
C6_CountLaw ==
    objectsPc = "return" =>
        IF parseObjectsArgs.queryData.objects.isArray
        THEN /\ Len(objects) = Len(parseObjectsArgs.queryData.objects.rows)
             /\ \A k \in 1..Len(objects) :
                    /\ \A j \in 1..Len(DeclaredFields) :
                           IsOnlyPosition(j) =>
                               GetProp(objects[k], NewFieldName(DeclaredFields[j]))
                                   = RowValue(k, j)
                    /\ IsStamped(k)
        ELSE objects = <<>>

\* C6, amended: the same law with the declared fields named __url or __model
\* left out of the fields that hold the row's value; under these two names
\* object k has urls[k] and the model name, whatever the row holds there.
C6_CountLawAmended ==
    objectsPc = "return" =>
        IF parseObjectsArgs.queryData.objects.isArray
        THEN /\ Len(objects) = Len(parseObjectsArgs.queryData.objects.rows)
             /\ \A k \in 1..Len(objects) :
                    /\ \A j \in 1..Len(DeclaredFields) :
                           /\ IsOnlyPosition(j)
                           /\ DeclaredFields[j] \notin {N_url, N_model}
                           => GetProp(objects[k], NewFieldName(DeclaredFields[j]))
                                  = RowValue(k, j)
                    /\ IsStamped(k)
        ELSE objects = <<>>

\* C6's case: _parseObjects has returned two objects for two rows whose
\* fields are id and __url, in this order
C6_Witness ==
    /\ objectsPc = "return"
    /\ parseObjectsArgs.queryData.objects.isArray
    /\ DeclaredFields = <<N_id, N_url>>
    /\ Len(objects) = 2
    /\ GetProp(objects[2], N_id) = RowValue(2, 1)
    /\ GetProp(objects[2], N_url) # RowValue(2, 2)

\* C7. Overwrite-always materialization: every object _parseObjects has made
\* with a custom constructor has under every declared field's name (the name
\* as makeCamelCase gives it when camelCase is on; the last position that
\* declares the name) the row's value, whatever the constructor had set
\* there; and with or without a custom constructor it has urls[k] under
\* __url and the model name under __model, which is what it has there also
\* when a declared field is named __url or __model.
C7_OverwriteAlways ==
    \A k \in 1..Len(objects) :
        /\ parseObjectsArgs.customConstructor # Null =>
               \A j \in 1..Len(DeclaredFields) :
                   /\ IsLastPosition(j)
                   /\ DeclaredFields[j] \notin {N_url, N_model}
                   => GetProp(objects[k], NewFieldName(DeclaredFields[j])) = RowValue(k, j)
        /\ IsStamped(k)

\* C7's case: with camelCase on, an object is made by a constructor that had
\* set values of its own under fX (the name of the declared field f_x) and
\* under __url (the name of the other declared field)
C7_Witness ==
    /\ Len(objects) >= 1
    /\ parseObjectsArgs.camelCase
    /\ parseObjectsArgs.customConstructor = "Preset"
    /\ DeclaredFields = <<N_url, <<"f", "_", "x">>>>
    /\ LET objectData == CombineFields(EmptyObject, DeclaredFields,
                                       parseObjectsArgs.queryData.objects.rows[1], 1)
       IN  /\ GetProp(Construct("Preset", objectData), <<"f", "X">>) # RowValue(1, 2)
           /\ GetProp(Construct("Preset", objectData), N_url)
                  # Prim(parseObjectsArgs.queryData.urls[1])
    /\ GetProp(objects[1], <<"f", "X">>) = RowValue(1, 2)

----------------------------------------------------------------------------
(* Properties of _convertResultsToOutput *)

\* The keys the objects before objectIndex were put under
KeysBefore(objectIndex) == {outputKeys[i] : i \in 1..objectIndex}

\* C8. Output-key uniqueness: with camelCase off, whatever the relationship
\* names, output has one key for each object put in it, and under the key of
\* an object the values of that object; the key of object i is
\* relationships[i] when no earlier object took it, and otherwise
\* relationships[i] followed by the smallest number from 2 on that gives a
\* key no earlier object took.
C8_OutputKeysUnique ==
    (convertArgs # <<>> /\ ~convertArgs.camelCase) =>
        /\ Cardinality(DOMAIN output) = Len(outputKeys)
        /\ \A objectIndex \in 0..(Len(outputKeys) - 1) :
               LET name == Nth(convertArgs.relationships, objectIndex)
                   key == Nth(outputKeys, objectIndex)
                   taken == KeysBefore(objectIndex)
               IN  /\ output[key] = values(Nth(convertArgs.objects, objectIndex))
                   /\ IF name \notin taken THEN key = name
                      ELSE \E number \in 2..(objectIndex + 2) :
                               /\ key = name \o String(number)
                               /\ key \notin taken
                               /\ \A smaller \in 2..(number - 1) :
                                      name \o String(smaller) \in taken

\* C8's case: with camelCase off, the objects of the relationships t2, t, t
\* are all in output, the third under t3 since t and t2 are taken
C8_Witness ==
    /\ convertArgs # <<>>
    /\ ~convertArgs.camelCase
    /\ convertArgs.relationships = <<<<"t", "2">>, <<"t">>, <<"t">>>>
    /\ outputKeys = <<<<"t", "2">>, <<"t">>, <<"t", "3">>>>
    /\ Cardinality(DOMAIN output) = 3

----------------------------------------------------------------------------
(* Properties of _getArgs and the q of performQuery *)

\* The query string with its first newline made a space, position by position
IsQueryString(value, q) ==
    /\ Len(value) = Len(q)
    /\ \A i \in 1..Len(q) :
           value[i] = IF q[i] = "\n" /\ \A before \in 1..(i - 1) : q[before] # "\n"
                      THEN " " ELSE q[i]

\* C9. Request-argument layering: in the args given to request, d is 1 and q
\* comes from the query string, whatever params and clientDefaultArgs hold,
\* their own d and q included; every other key has the value of params when
\* params has the key, else that of clientDefaultArgs when it has the key,
\* else the built-in default, which is 0 for x and for fk.
C9_ArgumentLayering ==
    argsPc = "request" =>
        /\ DOMAIN args = {"x", "fk", "d", "q"} \cup DOMAIN callArgs.params.object
                             \cup DOMAIN callArgs.clientDefaultArgs.object
        /\ args["d"] = <<"1">>
        /\ IsQueryString(args["q"], callArgs.q)
        /\ \A key \in DOMAIN args \ {"d", "q"} :
               args[key] =
                   IF key \in DOMAIN callArgs.params.object THEN ParamsValue
                   ELSE IF key \in DOMAIN callArgs.clientDefaultArgs.object THEN ClientValue
                   ELSE <<"0">>

\* C9's case: args is given to request after a call whose params have d, q
\* and x, whose client defaults have d, q, x and r, and whose query string
\* has a newline
C9_Witness ==
    /\ argsPc = "request"
    /\ callArgs.params.isObject
    /\ DOMAIN callArgs.params.object = {"d", "q", "x"}
    /\ callArgs.clientDefaultArgs.isObject
    /\ DOMAIN callArgs.clientDefaultArgs.object = {"d", "q", "x", "r"}
    /\ callArgs.q = <<"a", "\n">>
    /\ args["x"] = ParamsValue
    /\ args["r"] = ClientValue
    /\ args["fk"] = <<"0">>

----------------------------------------------------------------------------
(* Properties of performQuery *)

\* For every call made: the transport was invoked once; while the promise
\* of the transport is pending so is the returned promise; once the promise
\* of the transport is rejected the response is not parsed and the returned
\* promise is pending or rejected with the same reason
FailurePropagates ==
    \A call \in Calls :
        /\ invoked[call] = 1
        /\ transportPromise[call] = Pending => returnedPromise[call] = Pending
        /\ transportPromise[call].state = "rejected" =>
               /\ parsed[call] = 0
               /\ returnedPromise[call] \in {Pending, transportPromise[call]}

\* C10. Transport failure propagation: every call of performQuery invokes
\* the transport exactly once; when the promise of the transport rejects,
\* the returned promise rejects, with the same reason, the response is never
\* parsed and the transport is not invoked again; while the promise of the
\* transport is pending the returned promise is pending.
C10_TransportFailure ==
    /\ []FailurePropagates
    /\ \A call \in 1..MaxCalls :
           (call \in Calls /\ transportPromise[call].state = "rejected")
               ~> (call \in Calls /\ returnedPromise[call] = transportPromise[call])

\* C10's case: of three calls one has its returned promise rejected with the
\* reason the transport gave, one has the promise of the transport rejected
\* and one has both promises pending
C10_Witness ==
    /\ Len(invoked) = 3
    /\ transportPromise[1] = Rejected("error2")
    /\ returnedPromise[1] = Rejected("error2")
    /\ transportPromise[2] = Rejected("error1")
    /\ returnedPromise[2] = Pending
    /\ transportPromise[3] = Pending
    /\ returnedPromise[3] = Pending


----------------------------------------------------------------------------
(* Properties of CuriousQuery.perform *)

\* The registered pairs that have a fulfilled callback
FulfilledCallbacks == {thenIndex \in 1..Len(performThens) : Truthy(performThens[thenIndex][1])}

\* The callbacks of the chain have all run or been passed over
ChainSettled ==
    \A link \in 1..Len(promises) :
        promises[link].callback <= MaxThens => promises[link].promise # Pending

\* C11: the callbacks registered with then and catch before perform run in the
\* order they were registered in; when the query fulfils, the first callback
\* to run is the first registered fulfilled callback and it receives the
\* result of the query; every later callback receives what the callback run
\* before it returned or threw; the callback the caller attaches to the
\* promise perform returned runs after all of them.
C11_RegistrationOrder ==
    performPc \in {"performed", "attached"} =>
        /\ \A n \in 1..Len(ran) :
             /\ n > 1 =>
                  /\ ran[n - 1].callback < ran[n].callback
                  /\ ran[n].received.value \in
                       {Returned(ran[n - 1].callback), Thrown(ran[n - 1].callback)}
             /\ n = 1 => ran[n].received = promises[1].promise
             /\ ran[n].callback = CallerCallback => n = Len(ran) /\ ChainSettled
        /\ (promises[1].promise.state = "fulfilled" /\ ran # <<>> /\ FulfilledCallbacks # {}) =>
             /\ ran[1].callback = CHOOSE first \in FulfilledCallbacks :
                                     \A other \in FulfilledCallbacks : first <= other
             /\ ran[1].received = Fulfilled("result")

\* C11: two registered callbacks and the caller's callback have run, the
\* second on what the first threw
C11_Witness ==
    /\ performPc = "attached"
    /\ Len(ran) = 3
    /\ ran[1].callback = 1 /\ ran[2].callback = 2 /\ ran[3].callback = CallerCallback
    /\ ran[2].received = Rejected(Thrown(1))


----------------------------------------------------------------------------
(* Properties of CuriousQuery *)

\* The terms of the chain in the order query reads them, and the pieces query
\* makes of them
ChainTerms == Flatten(chain.terms)
ChainPieces == QueryPieces(ChainTerms, 1)

\* A term of start or follow
IsPlainJoin(term) == term.kind = "follow"

\* A term of with
IsOuterJoin(term) == term.kind = "with"

\* C12: a chain with no terms renders as the empty string; the first term has
\* nothing before it; between two consecutive terms of start or follow there
\* is exactly ", "; between a term of start or follow and a term of with next
\* to it, in either order, there is exactly " "; a term of with renders as
\* ?(term).
C12_SeparatorLaw ==
    queryPc = "chain" =>
        /\ ChainTerms = <<>> => query(chain) = ""
        /\ ChainTerms # <<>> => Len(ChainPieces) = 2 * Len(ChainTerms) - 1
        /\ Len(ChainTerms) = 1 /\ IsPlainJoin(ChainTerms[1]) =>
             query(chain) = ChainTerms[1].term
        /\ \A termIndex \in 1..Len(ChainTerms) :
             IsOuterJoin(ChainTerms[termIndex]) =>
                 ChainPieces[2 * termIndex - 1] = "?(" \o ChainTerms[termIndex].term \o ")"
        /\ \A termIndex \in 2..Len(ChainTerms) :
             LET previous == ChainTerms[termIndex - 1]
                 term == ChainTerms[termIndex]
                 separator == ChainPieces[2 * termIndex - 2]
             IN  /\ IsPlainJoin(previous) /\ IsPlainJoin(term) => separator = ", "
                 /\ IsPlainJoin(previous) /\ IsOuterJoin(term) => separator = " "
                 /\ IsOuterJoin(previous) /\ IsPlainJoin(term) => separator = " "
        /\ Len(ChainTerms) = 2 /\ IsOuterJoin(ChainTerms[1]) /\ IsPlainJoin(ChainTerms[2]) =>
             query(chain) = "?(" \o ChainTerms[1].term \o ") " \o ChainTerms[2].term

\* C12: a chain of a term of with and then a term of follow
C12_Witness ==
    /\ queryPc = "chain"
    /\ Len(ChainTerms) = 2
    /\ query(chain) = "?(A) A"

\* A call of start, follow or with
IsAddTermCall(call) == call.op \in {"start", "follow", "with"}

\* C13: a call of start, follow or with in which the term string is missing
\* or the relationship name is missing throws, and leaves terms,
\* relationships and objectFactories exactly as they were.
C13_MissingArgumentThrows ==
    [][(IsAddTermCall(lastCall')
          /\ (~Truthy(lastCall'.termString) \/ ~Truthy(lastCall'.relationship)))
         => /\ lastCall'.threw
            /\ chain'.terms = chain.terms
            /\ chain'.relationships = chain.relationships
            /\ chain'.objectFactories = chain.objectFactories]_vars

\* A call of wrapWith or wrapDynamically
IsWrapCall(call) == call.op \in {"wrapWith", "wrapDynamically"}

\* C14: wrapWith and wrapDynamically throw and leave the chain as it was when
\* it has no term; otherwise they replace the factory of the last term and
\* leave every earlier factory, every term and every relationship as it was.
C14_WrapFrame ==
    [][IsWrapCall(lastCall') =>
         IF chain.terms = <<>>
         THEN lastCall'.threw /\ chain' = chain
         ELSE /\ ~lastCall'.threw
              /\ chain'.terms = chain.terms
              /\ chain'.relationships = chain.relationships
              /\ Len(chain'.objectFactories) = Len(chain.objectFactories)
              /\ Front(chain'.objectFactories) = Front(chain.objectFactories)
              /\ Produces(chain'.objectFactories[Len(chain'.objectFactories)]) =
                   (IF lastCall'.op = "wrapWith" THEN "K" ELSE "F")]_vars

\* C14: wrapDynamically has replaced the last factory of a chain of two terms
\* whose first factory is another
C14_Witness ==
    /\ queryPc = "chain"
    /\ lastCall.op = "wrapDynamically" /\ ~lastCall.threw
    /\ Len(chain.objectFactories) = 2
    /\ Produces(chain.objectFactories[1]) = "K"
    /\ Produces(chain.objectFactories[2]) = "F"

\* C19: for the query object clone returns, query() is that of the query
\* object cloned, and terms, relationships, params, existingObjects and thens
\* are equal to those of the query object cloned.
C19_CloneEqual ==
    queryPc = "cloned" =>
        /\ query(cloned[1]) = query(chain)
        /\ cloned[1].terms = chain.terms
        /\ cloned[1].relationships = chain.relationships
        /\ cloned[1].params = chain.params
        /\ cloned[1].existingObjects = chain.existingObjects
        /\ cloned[1].thens = chain.thens

\* C20: after a.extend(b) the terms of a are its terms before followed by
\* those of b in order, and so are its relationships; its factories after
\* those it had correspond to those of b position by position, a factory
\* that makes objects of the same class for a factory and none for none; b is
\* as it was.
C20_ExtendAppends ==
    [][lastCall'.op = "extend" =>
         \E b \in ExtensionChains :
             /\ extension' = <<b>>
             /\ ~lastCall'.threw
             /\ chain'.terms = chain.terms \o b.terms
             /\ chain'.relationships = chain.relationships \o b.relationships
             /\ Len(chain'.objectFactories) = Len(chain.objectFactories) + Len(b.objectFactories)
             /\ SubSeq(chain'.objectFactories, 1, Len(chain.objectFactories)) =
                  chain.objectFactories
             /\ \A termIndex \in 1..Len(b.objectFactories) :
                  Produces(chain'.objectFactories[Len(chain.objectFactories) + termIndex]) =
                      Produces(b.objectFactories[termIndex])]_vars

\* C20: a chain of one term has been extended with a chain of one term
C20_Witness ==
    /\ queryPc = "chain"
    /\ lastCall.op = "extend"
    /\ Len(chain.terms) = 2
    /\ chain.terms[2].items[1].term = "B"
    /\ chain.relationships = <<"r", "s">>

\* terms, relationships and objectFactories have the same number of elements
SameLength(q) ==
    /\ Len(q.terms) = Len(q.relationships)
    /\ Len(q.terms) = Len(q.objectFactories)

\* C25: after any calls of start, follow, with, having, notHaving, wrapWith,
\* wrapDynamically, extend and clone, those that throw too, the terms, the
\* relationships and the objectFactories of a query object, and of the
\* query object clone returns, have the same number of elements; having and
\* notHaving do not change that number.
C25_ParallelArrays ==
    [][/\ SameLength(chain)
       /\ SameLength(chain')
       /\ cloned' # <<>> => SameLength(cloned'[1])
       /\ lastCall'.op \in {"having", "notHaving"} =>
            /\ Len(chain'.terms) = Len(chain.terms)
            /\ Len(chain'.relationships) = Len(chain.relationships)
            /\ Len(chain'.objectFactories) = Len(chain.objectFactories)]_vars

\* C25: notHaving has added its term to the only term of a chain, after a
\* call that threw or not
C25_Witness ==
    /\ queryPc = "chain"
    /\ lastCall.op = "notHaving" /\ ~lastCall.threw
    /\ Len(chain.terms) = 1 /\ TermCount(chain) = 2
    /\ SameLength(chain)

\* C21: a.extend(b) returns a new query chain, and a keeps the terms, the
\* relationships and the objectFactories it had before the call.
C21_ExtendKeepsReceiver ==
    [][lastCall'.op = "extend" =>
         /\ chain'.terms = chain.terms
         /\ chain'.relationships = chain.relationships
         /\ chain'.objectFactories = chain.objectFactories]_vars


----------------------------------------------------------------------------
(* Properties of two performQuery calls in flight *)

\* An object of the heap as a caller sees it: its properties, the objects of
\* an array each known by model and id
ObjectView(h, ref) ==
    [name \in DOMAIN h[ref] |->
        IF h[ref][name].k = "a"
        THEN [k |-> "a", p |-> "",
              a |-> [i \in 1..Len(h[ref][name].a) |->
                       <<GetProp(h[h[ref][name].a[i]], N_model).p,
                         GetProp(h[h[ref][name].a[i]], N_id).p>>]]
        ELSE h[ref][name]]

\* What a call resolved to as a caller sees it
ResultView(h, objects_, trees_) ==
    [objects |-> [name \in DOMAIN objects_ |->
                    [i \in 1..Len(objects_[name]) |-> ObjectView(h, objects_[name][i])]],
     trees |-> trees_]

\* What a call resolves to when it is the only call
AloneView(call) ==
    LET alone == Resolve(InitialOverlapHeap, overlapArgs[call].relationships,
                         overlapResolved[call].response,
                         overlapArgs[call].groupedExistingObjects)
    IN  ResultView(alone.heap, alone.objects, alone.trees)

\* The entities a call was given
EntitiesOf(call) ==
    IF overlapArgs[call].existingObjects.isArray
    THEN UNION {Elements(overlapArgs[call].existingObjects.items[i].items) :
                   i \in 1..Len(overlapArgs[call].existingObjects.items)}
    ELSE {}

\* The calls that have resolved
ResolvedCalls == {call \in 1..Len(overlapResolved) : overlapResolved[call].resolved}

\* C16, as first stated: whatever existing objects the two calls are given,
\* and whichever transport promise fulfils first, what a call resolved to is
\* what it resolves to when it is the only call.
C16_NoInterference ==
    \A call \in ResolvedCalls :
        ResultView(overlapHeap, overlapResolved[call].objects, overlapResolved[call].trees)
            = AloneView(call)

\* C16: when the two calls are given no entity in common, then whichever
\* transport promise fulfils first, what a call resolved to is what it
\* resolves to when it is the only call, and the args of its request are
\* those of its params.
C16_NoInterferenceDisjoint ==
    (Len(overlapArgs) = OverlapCalls /\ EntitiesOf(1) \cap EntitiesOf(2) = {}) =>
        \A call \in ResolvedCalls :
            /\ ResultView(overlapHeap, overlapResolved[call].objects,
                          overlapResolved[call].trees) = AloneView(call)
            /\ overlapArgs[call].args =
                   getArgs(overlapArgs[call].params, [isObject |-> FALSE, object |-> EmptyMap])

\* C16: both calls have resolved, the second to start first, each with an
\* entity of its own in a stage map and linked
C16_Witness ==
    /\ ResolvedCalls = {1, 2}
    /\ EntitiesOf(1) = {1} /\ EntitiesOf(2) = {2}
    /\ Related(overlapHeap, 1, <<"d">>) # {}
    /\ Related(overlapHeap, 2, <<"a", "_", "b">>) # {}
    /\ overlapHeap[3][N_model] = Prim(ModelName(0))
    /\ overlapHeap[3][N_id] = Prim("1")
    /\ overlapHeap[4][N_id] = Prim("0")

----------------------------------------------------------------------------
(* Properties of CuriousQuery objects held by reference *)

\* The params of a query object as a caller reads them
ParamsOf(h, queryObject) ==
    IF queryObject.params = NullRef THEN NoParams ELSE Params(h[queryObject.params])

\* The last call was target.setParams(params) with an object
IsSetParamsCall(call) == call.op = "setParams" /\ call.argument # NullRef

\* C22 as stated: after setParams(p) with an object p the params of the chain
\* are deep-equal to p, whatever the chain held before; reassigning a
\* top-level key of p afterwards does not change them; setParams with no
\* argument leaves params unchanged.
C22_SetParamsEqual ==
    [][/\ IsSetParamsCall(sharedCall') =>
            ParamsOf(store', queries'[sharedCall'.target]) =
                Params(store[sharedCall'.argument])
       /\ sharedCall'.op = "assign" =>
            \A target \in DOMAIN queries :
                ParamsOf(store', queries'[target]) = ParamsOf(store, queries[target])
       /\ (sharedCall'.op = "setParams" /\ sharedCall'.argument = NullRef) =>
            ParamsOf(store', queries'[sharedCall'.target]) =
                ParamsOf(store, queries[sharedCall'.target])]_vars

\* C22: after setParams(p) with an object p the params of the chain hold p's
\* value under every key of p and the value they had under every other key,
\* and no key besides, so that they are deep-equal to p when the chain had no
\* params or only keys of p; they are an object of the chain's own, so that
\* reassigning a top-level key of p afterwards does not change them;
\* setParams with no argument leaves params unchanged.
C22_SetParamsMerges ==
    [][/\ IsSetParamsCall(sharedCall') =>
            LET target == sharedCall'.target
                p == store[sharedCall'.argument]
                before == ParamsOf(store, queries[target])
                after == ParamsOf(store', queries'[target])
            IN  /\ after.isObject
                /\ DOMAIN after.object = DOMAIN before.object \cup DOMAIN p
                /\ \A key \in DOMAIN p : after.object[key] = p[key]
                /\ \A key \in DOMAIN before.object \ DOMAIN p :
                       after.object[key] = before.object[key]
                /\ DOMAIN before.object \subseteq DOMAIN p => after.object = p
                /\ queries'[target].params # sharedCall'.argument
       /\ sharedCall'.op = "assign" =>
            \A target \in DOMAIN queries :
                ParamsOf(store', queries'[target]) = ParamsOf(store, queries[target])
       /\ (sharedCall'.op = "setParams" /\ sharedCall'.argument = NullRef) =>
            ParamsOf(store', queries'[sharedCall'.target]) =
                ParamsOf(store, queries[sharedCall'.target])]_vars

\* C22: a chain was given the params {a: 'b'} and then the params {c: 'd'},
\* and the caller has since reassigned a in the first of them
C22_Witness ==
    /\ sharedPc = "calls"
    /\ \E target \in DOMAIN queries :
           /\ queries[target].params # NullRef
           /\ DOMAIN store[queries[target].params] = {"a", "c"}
           /\ store[queries[target].params].a = PrimSlot("b")
    /\ store[SomeParams].a = PrimSlot("moop")

----------------------------------------------------------------------------
(* Properties of makeCamelCase *)

\* The characters of a string that are not separators, each with the
\* character before it in the string ("" for the first)
RECURSIVE LettersWithPrevious(_, _)
LettersWithPrevious(string, previous) ==
    IF string = <<>> THEN <<>>
    ELSE (IF IsSeparator(Head(string)) THEN <<>>
          ELSE << <<Head(string), previous>> >>)
         \o LettersWithPrevious(Tail(string), Head(string))

\* The body the claim expects of a body of two or more segments: no
\* separator, the first letter of every segment after the first in upper
\* case, every other letter in lower case
ExpectedBody(body) ==
    LET letters == LettersWithPrevious(body, "")
    IN  [index \in 1..Len(letters) |->
            IF IsSeparator(letters[index][2]) THEN ToUpperCase(letters[index][1])
            ELSE ToLowerCase(letters[index][1])]

\* The segments of a body are two or more when it holds a separator
HasSeparator(string) == \E index \in 1..Len(string) : IsSeparator(string[index])

\* C23: makeCamelCase returns the leading run of separators unchanged, then
\* the body, then the trailing run of separators unchanged; a body of two or
\* more segments comes out with every segment in lower case but for the first
\* character of every segment after the first, in upper case, and with no
\* separator; a body of one segment comes out as it is; a string of
\* separators only, the empty string, null and undefined are returned
\* unchanged.
C23_CamelCaseResult ==
    camelPc = "returned" =>
        IF ~camelInput.isString THEN camelOutput[1] = camelInput
        ELSE LET input == camelInput.string
                 leading == LeadingLength(input)
                 trailing == TrailingLength(input)
                 body == SubSeq(input, leading + 1, Len(input) - trailing)
             IN  /\ camelOutput[1].isString
                 /\ IF leading = Len(input) THEN camelOutput[1].string = input
                    ELSE camelOutput[1].string =
                             SubSeq(input, 1, leading)
                             \o (IF HasSeparator(body) THEN ExpectedBody(body) ELSE body)
                             \o SubSeq(input, Len(input) - trailing + 1, Len(input))

\* C23: 'B_aB' has come out as 'bAb'
C23_Witness ==
    /\ camelPc = "returned"
    /\ camelInput = StringValue(<<"B", "_", "a", "B">>)
    /\ camelOutput[1] = StringValue(<<"b", "A", "b">>)

----------------------------------------------------------------------------
(* Properties of CuriousObjects.parse on whole responses *)

\* The response with nothing for its first stage to join: no stage joined
\* and no join ID pair
WithoutFirstEntry(response) ==
    [response EXCEPT !.results[1].join_index = -1, !.results[1].objects = <<>>]

\* The objects of the program after parse on this response in the place of
\* the response given
HeapAfter(response) ==
    parse(<<ExistingEntity(ExistingID)>>, GraphRelationships,
          [isArray |-> FALSE, items |-> <<>>], response, graphExisting, FALSE).heap

\* C24 as stated: whatever the response declares for stage 0, parse attaches
\* no relationship array on account of the results entry of stage 0 and
\* trees[0] stays null; for every stage i >= 1, trees[i] is results[i].tree.
C24_StageZeroSkipped ==
    graphPc = "returned" =>
        /\ graphHeap = HeapAfter(WithoutFirstEntry(graphResponse))
        /\ Nth(graphParsed[1].trees, 0) = Null
        /\ \A stage \in 1..(GraphStages - 1) :
               Nth(graphParsed[1].trees, stage) = Nth(graphResponse.results, stage).tree

\* C24: the link pass takes stage 0 as it takes every stage: when the
\* join_index of stage 0 names no stage of the response, parse attaches no
\* relationship array on account of the results entry of stage 0, whatever
\* its join ID pairs; for every stage i, stage 0 too, trees[i] is
\* results[i].tree.
C24_StageZeroLikeOthers ==
    graphPc = "returned" =>
        /\ Nth(graphResponse.results, 0).join_index \notin 0..(GraphStages - 1) =>
               graphHeap = HeapAfter(WithoutFirstEntry(graphResponse))
        /\ \A stage \in 0..(GraphStages - 1) :
               Nth(graphParsed[1].trees, stage) = Nth(graphResponse.results, stage).tree

\* C24: stage 0 declared no stage to join, a join ID pair and a tree, and
\* the second stage joined it
C24_Witness ==
    /\ graphPc = "returned"
    /\ Nth(graphResponse.results, 0).join_index = -1
    /\ Nth(graphResponse.results, 0).objects = <<<<"1", "1">>>>
    /\ Nth(graphResponse.results, 0).tree = "tree"
    /\ Nth(graphParsed[1].trees, 0) = "tree"
    /\ Nth(graphResponse.results, 1).join_index = 0

\* The existingObjects of a query object as a caller reads them
ExistingObjectsOf(h, queryObject) ==
    IF queryObject.existingObjects = NullRef THEN NoObjects
    ELSE Objects(h[queryObject.existingObjects])

\* What a caller reads of a query object: query(), the relationships, the
\* objectFactories, the params and the existingObjects
QueryView(h, queryObject) ==
    [query |-> queryOnHeap(h, queryObject),
     relationships |-> h[queryObject.relationships],
     objectFactories |-> h[queryObject.objectFactories],
     params |-> ParamsOf(h, queryObject),
     existingObjects |-> ExistingObjectsOf(h, queryObject)]

\* The calls that change a query chain
ChainCalls ==
    {"start", "follow", "with", "having", "notHaving", "wrapWith", "wrapDynamically",
     "setParams", "setExistingObjects"}

\* C29: after c = q.clone(), no call of start, follow, with, having,
\* notHaving, wrapWith, wrapDynamically, setParams or setExistingObjects on c
\* changes q.query() or the relationships, objectFactories, params or
\* existingObjects of q, and no such call on q changes those of c.
C29_CloneIndependent ==
    [][(Len(queries) = 2 /\ sharedCall'.op \in ChainCalls) =>
         LET other == 3 - sharedCall'.target
         IN  QueryView(store', queries'[other]) = QueryView(store, queries[other])]_vars

\* C29: q had a term and a term of having with it when it was cloned, and
\* having was then called on the clone
C29_Witness ==
    /\ sharedPc = "calls"
    /\ Len(queries) = 2
    /\ sharedCall.op = "having" /\ sharedCall.target = 2
    /\ queryOnHeap(store, queries[1]) = "A +(D)"
    /\ queryOnHeap(store, queries[2]) = "A +(D) +(D)"

\* C30: toJSON returns an object with the keys terms, relationships, params,
\* objectFactories and existingObjects and throws nothing, for every query
\* object: one that setExistingObjects was never called on, and one whose
\* existing objects have null for a stage.
C30_ToJSONTotal ==
    sharedPc = "calls" =>
        \A target \in DOMAIN queries :
            /\ ~toJSON(store, queries[target]).threw
            /\ DOMAIN toJSON(store, queries[target]).json =
                   {"terms", "relationships", "params", "objectFactories", "existingObjects"}

----------------------------------------------------------------------------
(* Properties of CuriousQuery.query on query objects held by reference *)

\* A term of having or notHaving
IsFilter(term) == term.kind \in {"having", "notHaving"}

\* C26: in query() a term of having comes out as +(term) and a term of
\* notHaving as -(term); whatever term is before it, what is put before it is
\* one space and no comma; and what is put before a term of start or follow
\* that comes right after a term of having or notHaving is ", ".
C26_FilterSeparator ==
    sharedPc = "calls" =>
        \A target \in DOMAIN queries :
            LET terms_ == FlattenOnHeap(store, store[queries[target].terms])
                pieces == QueryPieces(terms_, 1)
            IN  /\ terms_ # <<>> => ~IsFilter(terms_[1])
                /\ \A termIndex \in 1..Len(terms_) :
                       /\ terms_[termIndex].kind = "having" =>
                              pieces[2 * termIndex - 1] = "+(" \o terms_[termIndex].term \o ")"
                       /\ terms_[termIndex].kind = "notHaving" =>
                              pieces[2 * termIndex - 1] = "-(" \o terms_[termIndex].term \o ")"
                /\ \A termIndex \in 2..Len(terms_) :
                       /\ IsFilter(terms_[termIndex]) => pieces[2 * termIndex - 2] = " "
                       /\ (IsFilter(terms_[termIndex - 1]) /\ IsPlainJoin(terms_[termIndex])) =>
                              pieces[2 * termIndex - 2] = ", "

\* C26: a chain of start, having and follow has come out with a space before
\* the term of having and ", " after it
C26_Witness ==
    /\ sharedPc = "calls"
    /\ queryOnHeap(store, queries[1]) = "A +(D), B"

\* The stage maps parse returned, and the relationship names it used
GraphObjects == graphParsed[1].objects
GraphNames == {GraphRelationships[index] : index \in 1..Len(GraphRelationships)}

\* The objects of the stage maps
InStageMap == UNION {Range(GraphObjects[stage]) : stage \in 1..Len(GraphObjects)}

\* A stage map holds the object under the identifier of the object
UnderItsID(ref) ==
    \E stage \in 1..Len(GraphObjects) :
        LET id == GetProp(graphHeap[ref], N_id).p
        IN  id \in DOMAIN GraphObjects[stage] /\ GraphObjects[stage][id] = ref

\* The objects parse made of the rows of the response
FreshObjects == 2..Len(graphHeap)

\* C28: after parse, every element of every relationship array is the very
\* object a stage map holds under the identifier of the element; an object
\* made of a row and then left for an existing object, or for the object of
\* a later row of the same identifier, is in no stage map and in no
\* relationship array.
C28_SharedIdentity ==
    graphPc = "returned" =>
        /\ \A ref \in InStageMap, name \in GraphNames :
               \A element \in Related(graphHeap, ref, name) : UnderItsID(element)
        /\ \A fresh \in FreshObjects \ InStageMap :
               \A ref \in 1..Len(graphHeap), name \in GraphNames :
                   fresh \notin Related(graphHeap, ref, name)

\* C28: the existing object took the place of the object of a row of the
\* first stage, the second of two rows of the second stage took the place of
\* the first, and the two objects kept are in each other's arrays
C28_Witness ==
    /\ graphPc = "returned"
    /\ GraphObjects[1]["1"] = 1
    /\ Cardinality(FreshObjects \ InStageMap) >= 2
    /\ Cardinality(DOMAIN GraphObjects[2]) = 1
    /\ GraphObjects[2]["1"] \in Related(graphHeap, 1, GraphRelationships[2])
    /\ 1 \in Related(graphHeap, GraphObjects[2]["1"], GraphRelationships[1])

----------------------------------------------------------------------------
(* Properties of a custom constructor of the query chain *)

\* The constructor given to the term: K to start, W to wrapWith
Attached == Produces(wrapQuery.objectFactories[1])

\* The calls of the constructor given to the term, in order
ConstructorCalls == SelectSeq(wrapCalls, LAMBDA call : call.function = Class(Attached))

\* C27: a constructor given to the term with wrapWith, or as the third
\* argument of start, is called once for every row of the stage when the
\* query is performed, with the field map of the row as its only argument.
C27_ConstructorReceivesRow ==
    (wrapPc = "returned" /\ Attached \in {"K", "W"}) =>
        ConstructorCalls =
            [objectIndex \in 1..Len(wrapData[1].objects.rows) |->
                Invocation(Class(Attached), <<ObjectData(wrapData[1], objectIndex)>>)]

============================================================================
